---- MODULE Spec2Model ----
(***************************************************************************)
(* A model of parsect's data utilities:                                    *)
(*   - ScienceIEDataUtils (src/parsect/utils/science_ie_data_utils.py):    *)
(*     the brat annotation loader, the BILOU conversion (whole document    *)
(*     and sentence-wise), write_bilou_lines, merge_files and              *)
(*     write_ann_file_from_conll_file;                                     *)
(*   - BaseTextClassification.get_train_valid_test_stratified_split        *)
(*     (src/parsect/datasets/classification/base_text_classification.py).  *)
(*                                                                         *)
(* Text is modelled as a sequence of units.  A unit is a TLA+ string that  *)
(* stands for one character (" ", "\t", "\n", a digit, a letter) or for a  *)
(* run of characters that holds no white space and that no operation of    *)
(* the program looks into (an entity label such as "Task").  Python's      *)
(* str.split, str.strip, str.lower, int() and the f-strings are computed   *)
(* on these sequences.                                                     *)
(*                                                                         *)
(* The libraries the code calls are modelled by what they do:              *)
(*   - spaCy 2.x (spacy.gold.biluo_tags_from_offsets, tags_to_entities,    *)
(*     offsets_from_biluo_tags, Doc.sents) as of the releases current when *)
(*     the file was written: biluo_tags_from_offsets does not check for    *)
(*     overlapping entities, a later entity overwrites the tags of an      *)
(*     earlier one;                                                        *)
(*   - the tokenizer and sentence segmenter (self.nlp) are the             *)
(*     environment: a Doc is an input, a sequence of tokens with their     *)
(*     character offsets and sentence-start flags;                         *)
(*   - sklearn's StratifiedShuffleSplit: its random draws are a            *)
(*     nondeterministic choice.                                            *)
(***************************************************************************)
EXTENDS Integers, Sequences, FiniteSets, TLC

(***************************************************************************)
(* Generic sequence helpers                                                *)
(***************************************************************************)
RECURSIVE SeqsUpTo(_, _)
\* All sequences over S of length at most n.
SeqsUpTo(S, n) ==
  IF n = 0 THEN {<<>>}
  ELSE LET shorter == SeqsUpTo(S, n - 1)
       IN  shorter \cup {Append(s, x) : s \in {t \in shorter : Len(t) = n - 1}, x \in S}

RECURSIVE Flatten(_)
\* The concatenation of a sequence of sequences.
Flatten(ss) == IF ss = <<>> THEN <<>> ELSE Head(ss) \o Flatten(Tail(ss))

Range(s) == {s[i] : i \in DOMAIN s}

(***************************************************************************)
(* Python string operations on sequences of units                          *)
(***************************************************************************)
SP  == " "
TAB == "\t"
NL  == "\n"

\* str.isspace() of one character
IsWhitespace(c) == c \in {SP, TAB, NL}

RECURSIVE LStrip(_)
LStrip(s) == IF s # <<>> /\ IsWhitespace(Head(s)) THEN LStrip(Tail(s)) ELSE s

RECURSIVE RStrip(_)
RStrip(s) ==
  IF s # <<>> /\ IsWhitespace(s[Len(s)]) THEN RStrip(SubSeq(s, 1, Len(s) - 1)) ELSE s

\* str.strip()
Strip(s) == RStrip(LStrip(s))

RECURSIVE SplitAcc(_, _, _)
\* str.split(sep): every occurrence of sep separates, empty fields are kept.
SplitAcc(s, sep, cur) ==
  IF s = <<>> THEN <<cur>>
  ELSE IF Head(s) = sep THEN <<cur>> \o SplitAcc(Tail(s), sep, <<>>)
  ELSE SplitAcc(Tail(s), sep, Append(cur, Head(s)))

Split(s, sep) == SplitAcc(s, sep, <<>>)

RECURSIVE SplitWsAcc(_, _)
\* str.split(): runs of white space separate, no empty field is returned.
SplitWsAcc(s, cur) ==
  IF s = <<>> THEN (IF cur = <<>> THEN <<>> ELSE <<cur>>)
  ELSE IF IsWhitespace(Head(s))
       THEN (IF cur = <<>> THEN <<>> ELSE <<cur>>) \o SplitWsAcc(Tail(s), <<>>)
       ELSE SplitWsAcc(Tail(s), Append(cur, Head(s)))

SplitWs(s) == SplitWsAcc(s, <<>>)

RECURSIVE Join(_, _)
\* sep.join(parts)
Join(sep, parts) ==
  IF parts = <<>> THEN <<>>
  ELSE IF Len(parts) = 1 THEN parts[1]
  ELSE parts[1] \o sep \o Join(sep, Tail(parts))

\* str.startswith(c) for a one-character prefix
StartsWith(s, c) == s # <<>> /\ s[1] = c

\* str.lower() of one unit: the units with an upper-case letter are listed.
LowerUnit(c) ==
  CASE c = "Task"     -> "task"
    [] c = "TASK"     -> "task"
    [] c = "Process"  -> "process"
    [] c = "Material" -> "material"
    [] c = "T"        -> "t"
    [] c = "R"        -> "r"
    [] OTHER          -> c

Lower(s) == [i \in DOMAIN s |-> LowerUnit(s[i])]

Digits == <<"0", "1", "2", "3", "4", "5", "6", "7", "8", "9">>

DigitValue(c) == (CHOOSE i \in DOMAIN Digits : Digits[i] = c) - 1

\* Whether int(s) parses: a non-empty run of decimal digits.
IsInt(s) == s # <<>> /\ \A i \in DOMAIN s : s[i] \in Range(Digits)

RECURSIVE IntOf(_)
\* int(s) of a run of decimal digits
IntOf(s) ==
  IF s = <<>> THEN 0
  ELSE 10 * IntOf(SubSeq(s, 1, Len(s) - 1)) + DigitValue(s[Len(s)])

RECURSIVE StrOf(_)
\* str(n) of a natural number
StrOf(n) == IF n < 10 THEN <<Digits[n + 1]>> ELSE StrOf(n \div 10) \o <<Digits[(n % 10) + 1]>>

RECURSIVE ReadLinesAcc(_, _)
\* `for line in fp`: the lines of a text file, each with its line terminator.
ReadLinesAcc(text, cur) ==
  IF text = <<>> THEN (IF cur = <<>> THEN <<>> ELSE <<cur>>)
  ELSE IF Head(text) = NL THEN <<Append(cur, NL)>> \o ReadLinesAcc(Tail(text), <<>>)
  ELSE ReadLinesAcc(Tail(text), Append(cur, Head(text)))

ReadLines(text) == ReadLinesAcc(text, <<>>)

(***************************************************************************)
(* ScienceIEDataUtils: the annotation loader                               *)
(***************************************************************************)
\* self.entity_types, in the order of the list
entity_types == << <<"Process">>, <<"Material">>, <<"Task">> >>

\* self._conll_col_sep
conll_col_sep == <<SP>>

\* What a call gives back: a value, or the exception that ended it.
Returned(v) == [status |-> "returned", value |-> v, err |-> "none"]
Raised(e)   == [status |-> "raised", value |-> <<>>, err |-> e]

\* Fault injection for TagMatches: the comparison without .lower().
TagMatchesExactly(tag, entity) == tag = entity

\* line 68: tag.lower() == entity.lower()
TagMatches(tag, entity) == Lower(tag) = Lower(entity)

\* line 57: the line is an entity line with three tab-separated fields
IsEntityLine(line) == StartsWith(Strip(line), "T") /\ Len(Split(line, TAB)) = 3

RECURSIVE AnnotationLoop(_, _, _, _)
\* The loop of lines 56-76 over the lines that are left, with the annotations
\* and the warnings gathered so far.  The result is [status, annotations,
\* warnings, err]; int() of a non-numeric start or end raises ValueError.
AnnotationLoop(lines, entity, annotations, warnings) ==
  IF lines = <<>>
  THEN [status |-> "returned", annotations |-> annotations, warnings |-> warnings,
        err |-> "none"]
  ELSE
    LET line   == Head(lines)
        fields == Split(line, TAB)
    IN  IF IsEntityLine(line)
        THEN LET entity_number == fields[1]
                 tag_start_end == fields[2]
                 words         == fields[3]
                 parts         == SplitWs(tag_start_end)
             IN  IF Len(parts) # 3
                 THEN AnnotationLoop(Tail(lines), entity, annotations,
                                     Append(warnings, [kind |-> "skipping", line |-> line]))
                 ELSE IF ~IsInt(parts[2]) \/ ~IsInt(parts[3])
                 THEN [status |-> "raised", annotations |-> annotations,
                       warnings |-> warnings, err |-> "ValueError"]
                 ELSE IF TagMatches(parts[1], entity)
                 THEN AnnotationLoop(Tail(lines), entity,
                        Append(annotations,
                               [start |-> IntOf(parts[2]), end |-> IntOf(parts[3]),
                                words |-> words, entity_number |-> entity_number,
                                tag |-> parts[1]]),
                        warnings)
                 ELSE AnnotationLoop(Tail(lines), entity, annotations, warnings)
        ELSE AnnotationLoop(Tail(lines), entity, annotations, warnings)

\* _get_annotations_for_entity over the lines of <file_id>.ann
GetAnnotationsForEntity(ann_lines, entity) ==
  LET WarnIfNone(r) ==
        IF r.status = "returned" /\ Len(r.annotations) = 0
        THEN [r EXCEPT !.warnings = Append(@, [kind |-> "zero", line |-> <<>>])]
        ELSE r
  IN  WarnIfNone(AnnotationLoop(ann_lines, entity, <<>>, <<>>))

(***************************************************************************)
(* The tokenizer's output (self.nlp(text)): a Doc                          *)
(***************************************************************************)
\* A token: its text, the offset of its first character (token.idx) and
\* whether it starts a sentence (token.is_sent_start).
Token(text, idx, is_sent_start) ==
  [text |-> text, idx |-> idx, is_sent_start |-> is_sent_start]

\* token.is_space: the text is white space only
IsSpaceToken(token) == \A i \in DOMAIN token.text : IsWhitespace(token.text[i])

\* The offset after the last character of a token: token.idx + len(token)
TokenEnd(token) == token.idx + Len(token.text)

\* len(list(doc.sents)): a sentence starts at the first token and at every
\* later token whose sent_start is set.
NumSents(doc) ==
  IF doc = <<>> THEN 0
  ELSE 1 + Cardinality({i \in 2..Len(doc) : doc[i].is_sent_start})

(***************************************************************************)
(* spacy.gold.biluo_tags_from_offsets                                      *)
(***************************************************************************)
\* "%s-%s" % (prefix, label)
BiluoTag(prefix, label) == <<prefix, "-">> \o label

\* starts.get(start_char): the (1-based) index of the token that starts at
\* start_char, 0 for None.
StartTokenOf(doc, start_char) ==
  IF \E i \in DOMAIN doc : doc[i].idx = start_char
  THEN CHOOSE i \in DOMAIN doc : doc[i].idx = start_char
  ELSE 0

\* ends.get(end_char)
EndTokenOf(doc, end_char) ==
  IF \E i \in DOMAIN doc : TokenEnd(doc[i]) = end_char
  THEN CHOOSE i \in DOMAIN doc : TokenEnd(doc[i]) = end_char
  ELSE 0

\* The tags after one entity (start_char, end_char, label) is handled.
TagOneEntity(doc, biluo, entity) ==
  LET start_token == StartTokenOf(doc, entity[1])
      end_token   == EndTokenOf(doc, entity[2])
      label       == entity[3]
  IN  IF start_token # 0 /\ end_token # 0
      THEN IF start_token = end_token
           THEN [biluo EXCEPT ![start_token] = BiluoTag("U", label)]
           ELSE [i \in DOMAIN biluo |->
                   IF i = end_token THEN BiluoTag("L", label)
                   ELSE IF i = start_token THEN BiluoTag("B", label)
                   ELSE IF start_token < i /\ i < end_token THEN BiluoTag("I", label)
                   ELSE biluo[i]]
      ELSE biluo

RECURSIVE TagEntities(_, _, _)
\* The loop over the entities, in the order of the list.
TagEntities(doc, biluo, entities) ==
  IF entities = <<>> THEN biluo
  ELSE TagEntities(doc, TagOneEntity(doc, biluo, Head(entities)), Tail(entities))

\* entity_chars: every character offset inside some entity
EntityChars(entities) ==
  UNION {entities[k][1] .. (entities[k][2] - 1) : k \in DOMAIN entities}

\* biluo_tags_from_offsets(doc, entities, missing="O")
BiluoTagsFromOffsets(doc, entities) ==
  LET biluo == TagEntities(doc, [i \in DOMAIN doc |-> <<"-">>], entities)
      chars == EntityChars(entities)
  IN  [i \in DOMAIN doc |->
         IF \E c \in doc[i].idx .. (TokenEnd(doc[i]) - 1) : c \in chars
         THEN biluo[i]
         ELSE <<"O">>]

(***************************************************************************)
(* ScienceIEDataUtils: BILOU conversion                                    *)
(***************************************************************************)
\* Fault injection for EntitiesOf: the end offset taken as the offset of the
\* last character.
EntitiesOfInclusiveEnd(annotations) ==
  [k \in DOMAIN annotations |->
     <<annotations[k].start, annotations[k].end - 1, annotations[k].tag>>]

\* lines 104-109, 164-169: the (start, end, tag) triples of the annotations
EntitiesOf(annotations) ==
  [k \in DOMAIN annotations |->
     <<annotations[k].start, annotations[k].end, annotations[k].tag>>]

\* Fault injection for QualifyOutside: the "-" of a misaligned token is kept.
QualifyOutsideKeepsDash(tag, entity) ==
  IF StartsWith(tag, "O") THEN <<"O", "-">> \o entity ELSE tag

\* lines 113-116, 173-178: the lambda that qualifies "O" and "-"
QualifyOutside(tag, entity) ==
  IF StartsWith(tag, "O") \/ tag = <<"-">> THEN <<"O", "-">> \o entity ELSE tag

\* lines 111-117, 171-179: the tags of the tokens of a document
TagsFor(doc, annotations, entity) ==
  LET tags == BiluoTagsFromOffsets(doc, EntitiesOf(annotations))
  IN  [i \in DOMAIN doc |-> QualifyOutside(tags[i], entity)]

\* lines 123, 193, 198: one output line, "<text> <tag> <tag> <tag>"
BilouLine(token, tag) ==
  token.text \o conll_col_sep \o Join(conll_col_sep, <<tag, tag, tag>>)

\* Fault injection for FirstBilouLine: a tab where line 184 has a space.
FirstBilouLineWithTab(token, tag) ==
  token.text \o <<TAB>> \o Join(conll_col_sep, <<tag, tag, tag>>)

\* line 184: the line of the first token, written with a literal space
FirstBilouLine(token, tag) ==
  token.text \o <<SP>> \o Join(conll_col_sep, <<tag, tag, tag>>)

RECURSIVE BilouLinesLoop(_, _, _)
\* lines 121-124: one line per token that is not white space
BilouLinesLoop(doc, tags, i) ==
  IF i > Len(doc) THEN <<>>
  ELSE (IF ~IsSpaceToken(doc[i]) THEN <<BilouLine(doc[i], tags[i])>> ELSE <<>>)
       \o BilouLinesLoop(doc, tags, i + 1)

\* _get_bilou_lines_for_entity(text, annotations, entity), doc = self.nlp(text)
BilouLinesForEntity(doc, annotations, entity) ==
  BilouLinesLoop(doc, TagsFor(doc, annotations, entity), 1)

\* A document of the folder: the lines of <file_id>.ann and the Doc that
\* self.nlp gives for the text of <file_id>.txt (get_text_from_fileid).
Document(ann, doc) == [ann |-> ann, doc |-> doc]

\* What a conversion gives back: the lines (or sentences), the warnings of the
\* annotation loader, or the exception that ended the call.
Outcome(status, value, warnings, err) ==
  [status |-> status, value |-> value, warnings |-> warnings, err |-> err]

\* _get_annotations_for_entity as a call: lines 42-83
LoadAnnotations(document, entity) ==
  LET Result(r) == Outcome(r.status, r.annotations, r.warnings, r.err)
  IN  Result(GetAnnotationsForEntity(document.ann, entity))

\* get_bilou_lines_for_entity(file_id, entity): lines 85-99
GetBilouLinesForEntity(document, entity) ==
  LET Convert(r) ==
        IF r.status = "raised" THEN Outcome("raised", <<>>, r.warnings, r.err)
        ELSE Outcome("returned",
                     BilouLinesForEntity(document.doc, r.annotations, entity),
                     r.warnings, "none")
  IN  Convert(GetAnnotationsForEntity(document.ann, entity))

RECURSIVE SentenceLoopSkipsSpaceStarts(_, _, _, _, _, _)
\* Fault injection for SentenceLoop: a sentence is closed only at a sentence
\* start that is no white space.
SentenceLoopSkipsSpaceStarts(doc, tags, i, sentences, heap, current_sent) ==
  IF i > Len(doc) THEN <<Append(sentences, current_sent), heap>>
  ELSE
    LET token == doc[i]
        line  == BilouLine(token, tags[i])
    IN  IF IsSpaceToken(token)
        THEN SentenceLoopSkipsSpaceStarts(doc, tags, i + 1, sentences, heap, current_sent)
        ELSE IF token.is_sent_start
        THEN SentenceLoopSkipsSpaceStarts(doc, tags, i + 1,
                                          Append(sentences, current_sent),
                                          Append(heap, <<line>>), Len(heap) + 1)
        ELSE SentenceLoopSkipsSpaceStarts(doc, tags, i + 1, sentences,
                                          [heap EXCEPT ![current_sent] = Append(@, line)],
                                          current_sent)

RECURSIVE SentenceLoop(_, _, _, _, _, _)
\* The loop of lines 188-199 from token i on.  Python's lists are objects:
\* heap[k] is the content of the k-th list created, sentences holds the lists
\* appended so far (by their number) and current_sent is the list the name
\* current_sent is bound to.  The result is the pair <<sentences, heap>> with
\* the last sentence appended (line 202).
SentenceLoop(doc, tags, i, sentences, heap, current_sent) ==
  IF i > Len(doc) THEN <<Append(sentences, current_sent), heap>>
  ELSE
    LET token == doc[i]
        line  == BilouLine(token, tags[i])
    IN  IF token.is_sent_start
        THEN IF ~IsSpaceToken(token)
             THEN SentenceLoop(doc, tags, i + 1, Append(sentences, current_sent),
                               Append(heap, <<line>>), Len(heap) + 1)
             ELSE SentenceLoop(doc, tags, i + 1, Append(sentences, current_sent),
                               heap, current_sent)
        ELSE IF ~IsSpaceToken(token)
             THEN SentenceLoop(doc, tags, i + 1, sentences,
                               [heap EXCEPT ![current_sent] = Append(@, line)],
                               current_sent)
             ELSE SentenceLoop(doc, tags, i + 1, sentences, heap, current_sent)

\* Lines 181-206 for a Doc and its tags: the sentences, each a list of lines.
\* doc[0] of an empty Doc raises IndexError; the assertion of line 204
\* compares with len(list(doc.sents)).
SentencesOf(doc, tags) ==
  IF doc = <<>> THEN Raised("IndexError")
  ELSE
    LET first == IF ~IsSpaceToken(doc[1]) THEN <<FirstBilouLine(doc[1], tags[1])>>
                 ELSE <<>>
        Contents(r) == [k \in DOMAIN r[1] |-> r[2][r[1][k]]]
        Checked(sentences) ==
          IF Len(sentences) # NumSents(doc) THEN Raised("AssertionError")
          ELSE Returned(sentences)
    IN  Checked(Contents(SentenceLoop(doc, tags, 2, <<>>, <<first>>, 1)))

\* get_sentence_wise_bilou_lines(file_id, entity_type): lines 156-206
GetSentenceWiseBilouLines(document, entity_type) ==
  LET Result(s, warnings) == Outcome(s.status, s.value, warnings, s.err)
      Convert(r) ==
        IF r.status = "raised" THEN Outcome("raised", <<>>, r.warnings, r.err)
        ELSE Result(SentencesOf(document.doc,
                                TagsFor(document.doc, r.annotations, entity_type)),
                    r.warnings)
  IN  Convert(GetAnnotationsForEntity(document.ann, entity_type))

(***************************************************************************)
(* ScienceIEDataUtils: write_bilou_lines and merge_files                   *)
(***************************************************************************)
\* The content of a file that does not exist.
NoFile == <<"<no file>">>

\* The files of DATA_DIR the utilities write: the three per-entity CoNLL
\* files, the merged CoNLL file and the annotation file written back.
FileNames == {"process", "material", "task", "merged", "ann"}

\* line 135: the per-entity file, named after entity_type.lower()
EntityFileName(entity_type) == Lower(entity_type)[1]

RECURSIVE SentencesText(_)
\* lines 150-152: "\n".join(line) and "\n\n" for every sentence
SentencesText(bilou_lines) ==
  IF bilou_lines = <<>> THEN <<>>
  ELSE Join(<<NL>>, Head(bilou_lines)) \o <<NL, NL>> \o SentencesText(Tail(bilou_lines))

\* lines 140-148: the sentences of one document, the whole document being
\* one sentence when is_sentence_wise is false
DocumentBilouLines(document, entity_type, is_sentence_wise) ==
  IF is_sentence_wise THEN GetSentenceWiseBilouLines(document, entity_type)
  ELSE LET OneSentence(r) ==
             [r EXCEPT !.value = IF r.status = "returned" THEN <<r.value>> ELSE <<>>]
       IN  OneSentence(GetBilouLinesForEntity(document, entity_type))

RECURSIVE EntityFileLoopOwnOrder(_, _, _, _, _)
\* Fault injection for EntityFileLoop: the file ids are listed again for every
\* entity type, and the listing of the last entity type comes in another
\* order.
EntityFileLoopOwnOrder(folder, k, entity_type, is_sentence_wise, text) ==
  IF k > Len(folder) THEN [status |-> "returned", text |-> text, err |-> "none"]
  ELSE LET document == IF entity_type = entity_types[Len(entity_types)]
                       THEN folder[Len(folder) + 1 - k]
                       ELSE folder[k]
           Write(r) ==
             IF r.status = "raised"
             THEN [status |-> "raised", text |-> text, err |-> r.err]
             ELSE EntityFileLoopOwnOrder(folder, k + 1, entity_type, is_sentence_wise,
                                         text \o SentencesText(r.value))
       IN  Write(DocumentBilouLines(document, entity_type, is_sentence_wise))

RECURSIVE EntityFileLoop(_, _, _, _, _)
\* lines 138-152: the loop over self.file_ids for one entity type, with the
\* text written so far.  An exception leaves the text written before it.
EntityFileLoop(folder, k, entity_type, is_sentence_wise, text) ==
  IF k > Len(folder) THEN [status |-> "returned", text |-> text, err |-> "none"]
  ELSE LET Write(r) ==
             IF r.status = "raised"
             THEN [status |-> "raised", text |-> text, err |-> r.err]
             ELSE EntityFileLoop(folder, k + 1, entity_type, is_sentence_wise,
                                 text \o SentencesText(r.value))
       IN  Write(DocumentBilouLines(folder[k], entity_type, is_sentence_wise))

RECURSIVE WriteBilouLoop(_, _, _, _)
\* lines 133-152: the loop over self.entity_types; each file is opened for
\* writing (and so truncated) before its documents are converted.
WriteBilouLoop(folder, j, is_sentence_wise, fs) ==
  IF j > Len(entity_types) THEN [status |-> "returned", files |-> fs, err |-> "none"]
  ELSE LET entity_type == entity_types[j]
           Next_(r, written) ==
             IF r.status = "raised"
             THEN [status |-> "raised", files |-> written, err |-> r.err]
             ELSE WriteBilouLoop(folder, j + 1, is_sentence_wise, written)
           Written(r) == Next_(r, [fs EXCEPT ![EntityFileName(entity_type)] = r.text])
       IN  Written(EntityFileLoop(folder, 1, entity_type, is_sentence_wise, <<>>))

\* write_bilou_lines(out_filename, is_sentence_wise): lines 128-154
WriteBilouLines(folder, is_sentence_wise, fs) ==
  WriteBilouLoop(folder, 1, is_sentence_wise, fs)

\* Fault injection for MergedLine: the process and material columns swapped.
MergedLineSwapped(task_line, process_line, material_line) ==
  IF Strip(task_line) # <<>>
  THEN LET t == Split(Strip(task_line), conll_col_sep[1])
           p == Split(Strip(process_line), conll_col_sep[1])
           m == Split(Strip(material_line), conll_col_sep[1])
       IN  IF Len(t) # 4 \/ Len(p) # 4 \/ Len(m) # 4 THEN Raised("ValueError")
           ELSE Returned(Join(conll_col_sep, <<m[1], t[4], m[4], p[4]>>) \o <<NL>>)
  ELSE Returned(<<NL>>)

\* lines 225-242: what is written for one line of each file.  Unpacking into
\* four names raises ValueError unless the line has four columns; word is
\* bound last to the first column of the material line.
MergedLine(task_line, process_line, material_line) ==
  IF Strip(task_line) # <<>>
  THEN LET t == Split(Strip(task_line), conll_col_sep[1])
           p == Split(Strip(process_line), conll_col_sep[1])
           m == Split(Strip(material_line), conll_col_sep[1])
       IN  IF Len(t) # 4 \/ Len(p) # 4 \/ Len(m) # 4 THEN Raised("ValueError")
           ELSE Returned(Join(conll_col_sep, <<m[1], t[4], p[4], m[4]>>) \o <<NL>>)
  ELSE Returned(<<NL>>)

\* min(a, b, c)
Min3(a, b, c) == IF a <= b /\ a <= c THEN a ELSE IF b <= c THEN b ELSE c

RECURSIVE MergeLoop(_, _, _, _, _)
\* lines 222-242: zip() of the three files stops with the shortest
MergeLoop(task_lines, process_lines, material_lines, k, out) ==
  IF k > Min3(Len(task_lines), Len(process_lines), Len(material_lines))
  THEN [status |-> "returned", text |-> out, err |-> "none"]
  ELSE LET Write(r) ==
             IF r.status = "raised" THEN [status |-> "raised", text |-> out, err |-> r.err]
             ELSE MergeLoop(task_lines, process_lines, material_lines, k + 1,
                            out \o r.value)
       IN  Write(MergedLine(task_lines[k], process_lines[k], material_lines[k]))

\* merge_files(task_filename, process_filename, material_filename,
\* out_filename): lines 208-243.  open() of a missing file raises.
MergeFiles(fs) ==
  IF NoFile \in {fs["task"], fs["process"], fs["material"]}
  THEN [status |-> "raised", files |-> fs, err |-> "FileNotFoundError"]
  ELSE LET Written(r) ==
             [status |-> r.status, files |-> [fs EXCEPT !["merged"] = r.text],
              err |-> r.err]
       IN  Written(MergeLoop(ReadLines(fs["task"]), ReadLines(fs["process"]),
                             ReadLines(fs["material"]), 1, <<>>))

(***************************************************************************)
(* spacy.gold.offsets_from_biluo_tags                                      *)
(***************************************************************************)
RECURSIVE TagsToEntities(_, _, _, _)
\* spacy.gold.tags_to_entities from tag i on: the entities <<label, start,
\* end>> in token indices, start = 0 standing for None.
TagsToEntities(tags, i, start, entities) ==
  IF i > Len(tags) THEN Returned(entities)
  ELSE
    LET tag == tags[i]
    IN  IF StartsWith(tag, "O") THEN TagsToEntities(tags, i + 1, 0, entities)
        ELSE IF tag = <<"-">> THEN TagsToEntities(tags, i + 1, start, entities)
        ELSE IF StartsWith(tag, "I")
             THEN IF start = 0 THEN Raised("ValueError")
                  ELSE TagsToEntities(tags, i + 1, start, entities)
        ELSE IF StartsWith(tag, "U")
             THEN TagsToEntities(tags, i + 1, start,
                                 Append(entities, <<SubSeq(tag, 3, Len(tag)), i, i>>))
        ELSE IF StartsWith(tag, "B") THEN TagsToEntities(tags, i + 1, i, entities)
        ELSE IF StartsWith(tag, "L")
             THEN TagsToEntities(tags, i + 1, 0,
                                 Append(entities, <<SubSeq(tag, 3, Len(tag)), start, i>>))
        ELSE Raised("ValueError")

RECURSIVE SpanOffsets(_, _, _)
\* The loop of offsets_from_biluo_tags: Span(doc, start, end + 1) and its
\* start_char, end_char.  A start of None is a TypeError, a span that is not
\* inside the Doc an IndexError.
SpanOffsets(doc, token_offsets, offsets) ==
  IF token_offsets = <<>> THEN Returned(offsets)
  ELSE
    LET e == Head(token_offsets)
    IN  IF e[2] = 0 THEN Raised("TypeError")
        ELSE IF ~(e[2] <= e[3] /\ e[3] <= Len(doc)) THEN Raised("IndexError")
        ELSE SpanOffsets(doc, Tail(token_offsets),
                         Append(offsets, <<doc[e[2]].idx, TokenEnd(doc[e[3]]), e[1]>>))

\* offsets_from_biluo_tags(doc, tags)
OffsetsFromBiluoTags(doc, tags) ==
  LET Offsets(r) == IF r.status = "raised" THEN r ELSE SpanOffsets(doc, r.value, <<>>)
  IN  Offsets(TagsToEntities(tags, 1, 0, <<>>))

(***************************************************************************)
(* ScienceIEDataUtils: write_ann_file_from_conll_file                      *)
(***************************************************************************)
RECURSIVE ConllColumns(_, _)
\* lines 258-268: the columns of every line of the CoNLL file.  A line that
\* does not unpack into four names is unpacked into three, with word " ";
\* the ValueError of that second unpacking is not caught.
ConllColumns(lines, rows) ==
  IF lines = <<>> THEN Returned(rows)
  ELSE
    LET f == SplitWs(Head(lines))
    IN  IF Len(f) = 4 THEN ConllColumns(Tail(lines), Append(rows, f))
        ELSE IF Len(f) = 3
             THEN ConllColumns(Tail(lines), Append(rows, << <<SP>> >> \o f))
        ELSE Raised("ValueError")

\* The characters of the text from offset from_char up to to_char: the text
\* of the tokens and a space for every offset between two tokens.
RECURSIVE TextBetween(_, _, _)
TextBetween(doc, from_char, to_char) ==
  IF from_char >= to_char THEN <<>>
  ELSE LET inside == {i \in DOMAIN doc :
                        doc[i].idx <= from_char /\ from_char < TokenEnd(doc[i])}
       IN  (IF inside = {} THEN <<SP>>
            ELSE LET i == CHOOSE j \in inside : TRUE
                 IN  <<doc[i].text[from_char - doc[i].idx + 1]>>)
           \o TextBetween(doc, from_char + 1, to_char)

\* _form_ann_line(idx, char_offset, tag_name, doc): lines 305-320
FormAnnLine(idx, char_offset, tag_name, doc) ==
  LET surface_form == TextBetween(doc, char_offset[1], char_offset[2])
      offsets      == Join(<<SP>>, <<StrOf(char_offset[1]), StrOf(char_offset[2])>>)
      with_surface == Join(<<TAB>>, <<offsets, surface_form>>)
      with_tag     == Join(<<SP>>, <<tag_name, with_surface>>)
  IN  Join(<<TAB>>, <<<<"T">> \o StrOf(idx), with_tag>>)

\* lines 278-300: the lines of one entity type, numbered from term_idx on
AnnLinesOf(char_offsets, tag_name, doc, term_idx) ==
  [k \in DOMAIN char_offsets |->
     FormAnnLine(term_idx + k - 1, char_offsets[k], tag_name, doc)]

\* write_ann_file_from_conll_file(conll_filepath, ann_filepath, text), with
\* doc = self.nlp(text): lines 251-303
WriteAnnFileFromConllFile(fs, doc) ==
  IF fs["merged"] = NoFile
  THEN [status |-> "raised", files |-> fs, err |-> "FileNotFoundError"]
  ELSE
    LET Write(task, process, material) ==
          IF task.status = "raised"
          THEN [status |-> "raised", files |-> fs, err |-> task.err]
          ELSE IF process.status = "raised"
          THEN [status |-> "raised", files |-> fs, err |-> process.err]
          ELSE IF material.status = "raised"
          THEN [status |-> "raised", files |-> fs, err |-> material.err]
          ELSE
            LET ann_lines ==
                  AnnLinesOf(task.value, <<"Task">>, doc, 0)
                  \o AnnLinesOf(process.value, <<"Process">>, doc, Len(task.value))
                  \o AnnLinesOf(material.value, <<"Material">>, doc,
                                Len(task.value) + Len(process.value))
            IN  [status |-> "returned",
                 files |-> [fs EXCEPT !["ann"] = Join(<<NL>>, ann_lines)],
                 err |-> "none"]
        Offsets(rows) ==
          Write(OffsetsFromBiluoTags(doc, [k \in DOMAIN rows |-> rows[k][2]]),
                OffsetsFromBiluoTags(doc, [k \in DOMAIN rows |-> rows[k][3]]),
                OffsetsFromBiluoTags(doc, [k \in DOMAIN rows |-> rows[k][4]]))
        Columns_(cols) ==
          IF cols.status = "raised"
          THEN [status |-> "raised", files |-> fs, err |-> cols.err]
          ELSE Offsets(cols.value)
    IN  Columns_(ConllColumns(ReadLines(fs["merged"]), <<>>))


(***************************************************************************)
(* ScienceIEDataUtils: the files an operation opens                        *)
(***************************************************************************)
\* An open()/close() pair around the block: an exception in the block leaves
\* the files open.
CloseAfterBlock(paths, status) == IF status = "raised" THEN paths ELSE {}

\* "with open(...) as fp:" around a block that is left with status: the files
\* the statement leaves open.  The statement closes its files when the
\* block returns and when it raises.
WithOpen(paths, status) == {}

\* The files of the folder and of DATA_DIR.
AnnPath(file_id) == <<"folderpath", ToString(file_id), "ann">>

TextPath(file_id) == <<"folderpath", ToString(file_id), "txt">>

DataPath(name) == <<"DATA_DIR", name, "txt">>

\* lines 55-76: the files _get_annotations_for_entity leaves open
LoaderHandles(file_id, document, entity) ==
  WithOpen({AnnPath(file_id)}, GetAnnotationsForEntity(document.ann, entity).status)

\* lines 36-38: the files get_text_from_fileid leaves open; reading and
\* stripping the line do not raise
TextHandles(file_id) == WithOpen({TextPath(file_id)}, "returned")

\* lines 94-95 and 159-162: the loader, and the text reader when the loader
\* has returned
ConversionHandles(file_id, document, entity) ==
  LoaderHandles(file_id, document, entity)
    \cup (IF GetAnnotationsForEntity(document.ann, entity).status = "raised" THEN {}
          ELSE TextHandles(file_id))

RECURSIVE EntityFileHandles(_, _, _, _)
\* lines 138-148: the files the conversions of the documents leave open, up to
\* the document whose conversion raises
EntityFileHandles(folder, k, entity_type, is_sentence_wise) ==
  IF k > Len(folder) THEN {}
  ELSE LET Handles(r) ==
             ConversionHandles(k, folder[k], entity_type)
               \cup (IF r.status = "raised" THEN {}
                     ELSE EntityFileHandles(folder, k + 1, entity_type, is_sentence_wise))
       IN  Handles(DocumentBilouLines(folder[k], entity_type, is_sentence_wise))

RECURSIVE WriteBilouHandles(_, _, _)
\* lines 133-152: the files write_bilou_lines leaves open: line 137 opens the
\* file of the entity type around the loop over the documents
WriteBilouHandles(folder, j, is_sentence_wise) ==
  IF j > Len(entity_types) THEN {}
  ELSE LET entity_type == entity_types[j]
           Handles(r) ==
             WithOpen({DataPath(EntityFileName(entity_type))}, r.status)
               \cup EntityFileHandles(folder, 1, entity_type, is_sentence_wise)
               \cup (IF r.status = "raised" THEN {}
                     ELSE WriteBilouHandles(folder, j + 1, is_sentence_wise))
       IN  Handles(EntityFileLoop(folder, 1, entity_type, is_sentence_wise, <<>>))

\* lines 215-219: the files merge_files leaves open when it ends as r
MergeHandles(r) ==
  IF r.err = "FileNotFoundError" THEN {}
  ELSE WithOpen({DataPath("task"), DataPath("process"), DataPath("material"),
                 DataPath("merged")}, r.status)

\* lines 258-268 and 302-303: the files write_ann_file_from_conll_file leaves
\* open when it ends as r: the CoNLL file around the loop over its lines,
\* and the annotation file when the call gets to write it
WriteAnnHandles(fs, r) ==
  IF r.err = "FileNotFoundError" THEN {}
  ELSE WithOpen({DataPath("merged")}, ConllColumns(ReadLines(fs["merged"]), <<>>).status)
         \cup (IF r.status = "raised" THEN {} ELSE WithOpen({DataPath("ann")}, "returned"))

(***************************************************************************)
(* Inputs: bounded Docs and annotation files                               *)
(***************************************************************************)
\* The most tokens of a Doc.
MaxTokens == 3

\* The largest character offset an annotation line names.
MaxOff == 4

\* The most lines of an annotation file (conversion and pipeline).
MaxLines == 2

\* The most lines of an annotation file (annotation loader).
MaxAnnLines == 2

\* The shape of a token: a one-letter word ("w") or a white-space token
\* ("s", a tab inside the line), whether a space follows it (sp) and whether
\* the parser made it the start of a sentence.
Shape(kind, sp, ss) == [kind |-> kind, sp |-> sp, ss |-> ss]

FirstShapes == {Shape("w", sp, TRUE) : sp \in BOOLEAN}

LaterShapes ==
  {Shape("w", sp, ss) : sp \in BOOLEAN, ss \in BOOLEAN}
    \cup {Shape("s", FALSE, ss) : ss \in BOOLEAN}

\* get_text_from_fileid strips the text (line 38): a Doc neither starts nor
\* ends with white space.
ShapeSeqs ==
  {sh \in SeqsUpTo(FirstShapes \cup LaterShapes, MaxTokens) :
     /\ \A i \in DOMAIN sh : IF i = 1 THEN sh[i] \in FirstShapes
                                      ELSE sh[i] \in LaterShapes
     /\ sh # <<>> => (sh[Len(sh)].kind = "w" /\ ~sh[Len(sh)].sp)}

Letters == <<"a", "b", "c", "d">>

RECURSIVE MkDoc(_, _, _)
\* The Doc of a sequence of shapes, from token i at offset idx on.
MkDoc(sh, i, idx) ==
  IF i > Len(sh) THEN <<>>
  ELSE LET text == IF sh[i].kind = "w" THEN <<Letters[((i - 1) % 4) + 1]>> ELSE <<TAB>>
       IN  <<Token(text, idx, sh[i].ss)>>
           \o MkDoc(sh, i + 1, idx + Len(text) + (IF sh[i].sp THEN 1 ELSE 0))

Docs == {MkDoc(sh, 1, 0) : sh \in ShapeSeqs}

\* The Doc of the text "a b".
TwoWordDoc == MkDoc(<<Shape("w", TRUE, TRUE), Shape("w", FALSE, FALSE)>>, 1, 0)

Spans == {<<s, e>> : s \in 0..(MaxOff - 1), e \in 1..MaxOff} \cap
         {se \in (0..MaxOff) \X (0..MaxOff) : se[1] < se[2]}

\* An annotation line "<id>\t<tag> <start> <end>\t<words>\n"
AnnLine(id, tag, start, end, words) ==
  id \o <<TAB>> \o tag \o <<SP>> \o start \o <<SP>> \o end \o <<TAB>> \o words \o <<NL>>

\* Well-formed lines for the conversions: a Task entity over every span, and
\* a Process and a Material entity over the first character.
ConversionPool ==
  {AnnLine(<<"T", "1">>, <<"Task">>, StrOf(se[1]), StrOf(se[2]), <<"w">>) : se \in Spans}
  \cup
  {AnnLine(<<"T", "2">>, tag, <<"0">>, <<"1">>, <<"w">>) :
     tag \in {<<"Process">>, <<"Material">>}}

\* Lines for the annotation loader: entity lines with the tag in two
\* spellings and of another type, and the lines the loader does not accept:
\* a relation line, two and four tab fields, two and four fields in the
\* middle, a start and an end that are no numbers.
LoaderPool ==
  {AnnLine(<<"T", "1">>, tag, StrOf(se[1]), StrOf(se[2]), <<"w">>) :
     tag \in {<<"Task">>, <<"TASK">>, <<"Process">>}, se \in {<<0, 1>>, <<2, 3>>}}
  \cup
  { AnnLine(<<"R", "1">>, <<"Task">>, <<"0">>, <<"1">>, <<"w">>),
    <<"T", "1", TAB, "Task", SP, "0", SP, "1", NL>>,
    <<"T", "1", TAB, "Task", SP, "0", SP, "1", TAB, "w", TAB, "w", NL>>,
    <<"T", "1", TAB, "Task", SP, "0", TAB, "w", NL>>,
    <<"T", "1", TAB, "Task", SP, "0", SP, "1", SP, "2", TAB, "w", NL>>,
    AnnLine(<<"T", "1">>, <<"Task">>, <<"x">>, <<"1">>, <<"w">>),
    AnnLine(<<"T", "1">>, <<"Process">>, <<"0">>, <<"x">>, <<"w">>) }

\* The prefixes of the tags of n rows that tags_to_entities reads as spans: a
\* B is followed by I's and an L, an I and an L follow a B or an I.
BilouPrefixes(n) ==
  {t \in SeqsUpTo({"O", "U", "B", "I", "L"}, n) :
     /\ Len(t) = n
     /\ \A i \in 1..n :
          /\ t[i] \in {"B", "I"} => (i < n /\ t[i + 1] \in {"I", "L"})
          /\ t[i] \in {"I", "L"} => (i > 1 /\ t[i - 1] \in {"B", "I"})}

\* The tag columns of a CoNLL file of n rows: any spans of Task, no Process
\* span or one on the first row, no Material span or one on the last row.
TagColumns(n) ==
  {[task |-> t, process |-> p, material |-> m] :
     t \in BilouPrefixes(n),
     p \in {[i \in 1..n |-> "O"], [i \in 1..n |-> IF i = 1 THEN "U" ELSE "O"]},
     m \in {[i \in 1..n |-> "O"], [i \in 1..n |-> IF i = n THEN "U" ELSE "O"]}}

\* The text of a CoNLL file "token tag1 tag2 tag3" with one row for each of
\* the tokens, the tags of the columns cols.
ConllText(tokens, cols) ==
  Flatten([i \in DOMAIN tokens |->
             Join(conll_col_sep, <<tokens[i].text,
                                   <<cols.task[i], "-", "Task">>,
                                   <<cols.process[i], "-", "Process">>,
                                   <<cols.material[i], "-", "Material">>>>)
               \o <<NL>>])

\* The CoNLL files of the tags of a Doc: a row for every token (the word of
\* a white-space token is white space, which line 261 splits away), or a row
\* for every token that is not white space, as write_bilou_lines writes them.
ConllFilesOf(doc) ==
  LET words == SelectSeq(doc, LAMBDA token : ~IsSpaceToken(token))
  IN  {ConllText(doc, cols) : cols \in TagColumns(Len(doc))}
        \cup {ConllText(words, cols) : cols \in TagColumns(Len(words))}

(***************************************************************************)
(* BaseTextClassification.get_train_valid_test_stratified_split            *)
(*                                                                         *)
(* Sizes are fractions in tenths (8 is 0.8).  Positions of a list count    *)
(* from 1 where Python counts from 0.  A line is named by its position in  *)
(* the input, so a returned list tells which input positions it holds.     *)
(* sklearn's StratifiedShuffleSplit is translated from the library; its    *)
(* random draws (seeded, but a function of the installed numpy) are a      *)
(* choice among every outcome the algorithm allows.                        *)
(***************************************************************************)
RECURSIVE SumOver(_, _)
SumOver(f, S) ==
  IF S = {} THEN 0
  ELSE LET c == CHOOSE x \in S : TRUE IN f[c] + SumOver(f, S \ {c})

RECURSIVE Orderings(_)
\* Every ordering of a set: rng.permutation
Orderings(S) ==
  IF S = {} THEN {<<>>}
  ELSE UNION {{<<x>> \o p : p \in Orderings(S \ {x})} : x \in S}

\* [list[idx] for idx in indices]
Take(list, indices) == [k \in DOMAIN indices |-> list[indices[k]]]

\* sklearn _validate_shuffle_split: n_test = ceil(test_size * n_samples),
\* n_train = floor(train_size * n_samples)
ValidateShuffleSplit(n_samples, test_size, train_size) ==
  [n_train |-> (train_size * n_samples) \div 10,
   n_test  |-> (test_size * n_samples + 9) \div 10]

RECURSIVE DrawInOrder(_, _, _)
\* n_draws taken from the classes in the order of their number, each class
\* emptied before the next is touched.
DrawInOrder(class_counts, classes, n_draws) ==
  IF classes = {} THEN <<>>
  ELSE LET c    == CHOOSE x \in classes : \A d \in classes : x <= d
           take == IF n_draws < class_counts[c] THEN n_draws ELSE class_counts[c]
       IN  (c :> take) @@ DrawInOrder(class_counts, classes \ {c}, n_draws - take)

\* Fault injection for ApproximateMode: the draws are not shared in
\* proportion but taken class after class.
ApproximateModeInClassOrder(class_counts, n_draws) ==
  {DrawInOrder(class_counts, DOMAIN class_counts, n_draws)}

\* sklearn _approximate_mode: n_draws shared among the classes in proportion
\* to class_counts, rounded down, the draws left over going to the classes of
\* largest remainder, ties broken by rng.choice.
ApproximateMode(class_counts, n_draws) ==
  LET classes    == DOMAIN class_counts
      total      == SumOver(class_counts, classes)
      floored    == [c \in classes |-> (n_draws * class_counts[c]) \div total]
      remainder  == [c \in classes |-> (n_draws * class_counts[c]) % total]
      need_to_add == n_draws - SumOver(floored, classes)
  IN  { [c \in classes |-> floored[c] + (IF c \in inds THEN 1 ELSE 0)] :
          inds \in { I \in SUBSET classes :
                       /\ Cardinality(I) = need_to_add
                       /\ \A c \in I, d \in classes \ I : remainder[d] <= remainder[c] } }

\* The sets of positions holding, of each class c, counts[c] of the positions
\* in pool.
ClassSubsets(y, pool, counts) ==
  { S \in SUBSET pool :
      \A c \in DOMAIN counts : Cardinality({i \in S : y[i] = c}) = counts[c] }

\* The message of the ValueError sklearn raises, its text in pieces with the
\* numbers it formats in between: for an empty y, an empty train set, a
\* class of fewer than 2 members, and fewer train or test places than
\* classes, tested in this order.
SplitErrorMessage(n_samples, class_counts, n) ==
  LET classes == DOMAIN class_counts
  IN  IF n_samples = 0
      THEN <<"Found array with 0 sample(s) while a minimum of 1 is required.">>
      ELSE IF n.n_train = 0
      THEN <<"With n_samples=", ToString(n_samples),
             ", the resulting train set will be empty.">>
      ELSE IF \E c \in classes : class_counts[c] < 2
      THEN <<"The least populated class in y has only ",
             ToString(CHOOSE k \in Range(class_counts) :
                        \A c \in classes : k <= class_counts[c]),
             " member, which is too few.">>
      ELSE IF n.n_train < Cardinality(classes)
      THEN <<"The train_size = ", ToString(n.n_train),
             " should be greater or equal to the number of classes = ",
             ToString(Cardinality(classes))>>
      ELSE <<"The test_size = ", ToString(n.n_test),
             " should be greater or equal to the number of classes = ",
             ToString(Cardinality(classes))>>

\* StratifiedShuffleSplit(n_splits=1, test_size, train_size).split(X, y):
\* the outcomes of splits[0], or the ValueError sklearn raises for an empty
\* y, a class of fewer than 2 members, or fewer train or test places than
\* classes.
StratifiedShuffleSplit(y, test_size, train_size) ==
  LET n_samples    == Len(y)
      classes      == Range(y)
      class_counts == [c \in classes |-> Cardinality({i \in DOMAIN y : y[i] = c})]
      n            == ValidateShuffleSplit(n_samples, test_size, train_size)
  IN  IF \/ n_samples = 0
         \/ \E c \in classes : class_counts[c] < 2
         \/ n.n_train < Cardinality(classes)
         \/ n.n_test < Cardinality(classes)
      THEN {[status |-> "raised", err |-> "ValueError",
             message |-> SplitErrorMessage(n_samples, class_counts, n),
             train |-> <<>>, test |-> <<>>]}
      ELSE UNION UNION UNION
           { { { { [status |-> "returned", err |-> "none", message |-> <<>>,
                       train |-> train, test |-> test] :
                     train \in Orderings(train_set), test \in Orderings(test_set) } :
                   test_set \in ClassSubsets(y, DOMAIN y \ train_set, t_i) } :
                 train_set \in ClassSubsets(y, DOMAIN y, n_i),
                 t_i \in ApproximateMode([c \in classes |-> class_counts[c] - n_i[c]], n.n_test) } :
               n_i \in ApproximateMode(class_counts, n.n_train) }

classname2idx == [neg |-> 0, pos |-> 1]

\* The test_valid_lines in place of lines 262: the first lines of the input,
\* whichever indices the splitter chose.
TestValidLinesFromTheStart(lines, test_valid_indices) ==
  SubSeq(lines, 1, Len(test_valid_indices))

\* line 262
TestValidLines(lines, test_valid_indices) == Take(lines, test_valid_indices)

NoSplit == [status |-> "none", err |-> "none", message |-> <<>>,
            train |-> [lines |-> <<>>, labels |-> <<>>],
            validation |-> [lines |-> <<>>, labels |-> <<>>],
            test |-> [lines |-> <<>>, labels |-> <<>>]]

\* Fault injection for ValidationTestSplit: the test labels of line 290 are
\* taken at validation_indices instead of test_indices.
ValidationTestSplitLabelsOfValidation(train_lines, train_labels, test_valid_lines, test_valid_labels, validation_size) ==
  LET test_valid_labels_idx_array ==
        [k \in DOMAIN test_valid_labels |-> classname2idx[test_valid_labels[k]]]
  IN  IF Len(test_valid_labels) # Len(test_valid_lines)
      THEN {[NoSplit EXCEPT !.status = "raised", !.err = "AssertionError"]}
      ELSE { IF s.status = "raised"
             THEN [NoSplit EXCEPT !.status = "raised", !.err = s.err,
                                  !.message = s.message]
             ELSE [status |-> "returned", err |-> "none", message |-> <<>>,
                   train |-> [lines |-> train_lines, labels |-> train_labels],
                   validation |-> [lines  |-> Take(test_valid_lines, s.test),
                                   labels |-> Take(test_valid_labels, s.test)],
                   test |-> [lines  |-> Take(test_valid_lines, s.train),
                             labels |-> Take(test_valid_labels, s.test)]] :
             s \in StratifiedShuffleSplit(test_valid_labels_idx_array,
                                          validation_size, 10 - validation_size) }

\* The second stage, lines 265-299, for one outcome of the first.
ValidationTestSplit(train_lines, train_labels, test_valid_lines, test_valid_labels, validation_size) ==
  LET test_valid_labels_idx_array ==
        [k \in DOMAIN test_valid_labels |-> classname2idx[test_valid_labels[k]]]
  IN  IF Len(test_valid_labels) # Len(test_valid_lines)
      THEN {[NoSplit EXCEPT !.status = "raised", !.err = "AssertionError"]}
      ELSE { IF s.status = "raised"
             THEN [NoSplit EXCEPT !.status = "raised", !.err = s.err,
                                  !.message = s.message]
             ELSE [status |-> "returned", err |-> "none", message |-> <<>>,
                   train |-> [lines |-> train_lines, labels |-> train_labels],
                   validation |-> [lines  |-> Take(test_valid_lines, s.test),
                                   labels |-> Take(test_valid_labels, s.test)],
                   test |-> [lines  |-> Take(test_valid_lines, s.train),
                             labels |-> Take(test_valid_labels, s.train)]] :
             s \in StratifiedShuffleSplit(test_valid_labels_idx_array,
                                          validation_size, 10 - validation_size) }

\* get_train_valid_test_stratified_split: lines 238-299
GetTrainValidTestStratifiedSplit(lines, labels, sizes) ==
  LET labels_idx_array == [k \in DOMAIN labels |-> classname2idx[labels[k]]]
  IN  IF Len(lines) # Len(labels)
      THEN {[NoSplit EXCEPT !.status = "raised", !.err = "AssertionError"]}
      ELSE UNION
           { IF s.status = "raised"
             THEN {[NoSplit EXCEPT !.status = "raised", !.err = s.err,
                                   !.message = s.message]}
             ELSE ValidationTestSplit(Take(lines, s.train), Take(labels, s.train),
                                      TestValidLines(lines, s.test), Take(labels, s.test),
                                      sizes.validation_size) :
             s \in StratifiedShuffleSplit(labels_idx_array, sizes.test_size,
                                          sizes.train_size) }

\* The most examples of a dataset.
MaxExamples == 6

\* train_size, test_size and validation_size of the constructor: the
\* defaults of lines 27-29, a split with a larger held-out part, and one whose
\* train and test sizes leave examples out.
SplitSizes ==
  { [train_size |-> 8, test_size |-> 2, validation_size |-> 5],
    [train_size |-> 4, test_size |-> 6, validation_size |-> 5],
    [train_size |-> 4, test_size |-> 2, validation_size |-> 5] }

\* The lines of a dataset of n examples, each named by its position.
LinesOf(n) == [i \in 1..n |-> i]

\* The datasets: labels of up to MaxExamples examples, as many lines or one
\* more, and the sizes.
Datasets ==
  { [lines |-> LinesOf(n), labels |-> labels, sizes |-> sizes] :
      labels \in SeqsUpTo(DOMAIN classname2idx, MaxExamples),
      n \in 0..(MaxExamples + 1), sizes \in SplitSizes }

\* The number of examples of the datasets whose labels are grouped by class.
MaxGrouped == 7

\* The labels of a examples of class neg followed by b of class pos.
GroupedLabels(a, b) == [i \in 1..(a + b) |-> IF i <= a THEN "neg" ELSE "pos"]

\* The datasets of MaxGrouped examples of two classes whose labels are
\* grouped by class (the splitter tells the positions of one class apart only
\* by its random draws).
GroupedDatasets ==
  { [lines |-> LinesOf(ab[1] + ab[2]), labels |-> GroupedLabels(ab[1], ab[2]),
     sizes |-> sizes] :
      ab \in {x \in (1..MaxGrouped) \X (1..MaxGrouped) : x[1] + x[2] = MaxGrouped},
      sizes \in SplitSizes }

NoDataset == [lines |-> <<>>, labels |-> <<>>,
              sizes |-> [train_size |-> 8, test_size |-> 2, validation_size |-> 5]]



(***************************************************************************)
(* The vocabulary of an experiment                                         *)
(***************************************************************************)
\* The reserved tokens, as the clients pass them to the dataset; they hold
\* the first ids of every vocabulary.
reserved_tokens == <<"<PAD>", "<UNK>", "<SOS>", "<EOS>">>

\* The tokens of a corpus, each once, in the order they are first seen.
RECURSIVE FirstSeenLoop(_, _)
FirstSeenLoop(tokens, seen) ==
  IF tokens = <<>> THEN seen
  ELSE FirstSeenLoop(Tail(tokens),
                     IF Head(tokens) \in Range(seen) THEN seen
                     ELSE Append(seen, Head(tokens)))

Frequency(tokens, t) == Cardinality({k \in DOMAIN tokens : tokens[k] = t})

\* The tokens of seen by falling frequency, ties in first-seen order.
RECURSIVE RankLoop(_, _, _)
RankLoop(tokens, seen, ranked) ==
  IF seen = <<>> THEN ranked
  ELSE LET best == CHOOSE k \in DOMAIN seen :
                     /\ \A m \in DOMAIN seen :
                          Frequency(tokens, seen[m]) <= Frequency(tokens, seen[k])
                     /\ \A m \in 1..(k - 1) :
                          Frequency(tokens, seen[m]) < Frequency(tokens, seen[k])
       IN  RankLoop(tokens,
                    SubSeq(seen, 1, best - 1) \o SubSeq(seen, best + 1, Len(seen)),
                    Append(ranked, seen[best]))

\* build(token_sequences, max_size): the reserved tokens at their ids, then
\* the max_size - R most frequent tokens.  The id of a token is its place in
\* the sequence, counted from 0.
BuildVocab(tokens, max_num_words) ==
  LET ranked == RankLoop(tokens, FirstSeenLoop(tokens, <<>>), <<>>)
      kept   == max_num_words - Len(reserved_tokens)
  IN  reserved_tokens \o SubSeq(ranked, 1, IF kept < Len(ranked) THEN kept ELSE Len(ranked))

\* lookup(token): the id of the token, the id of the unknown token for a token
\* the vocabulary does not hold.
Lookup(vocab, token) ==
  IF token \in Range(vocab)
  THEN (CHOOSE k \in DOMAIN vocab : vocab[k] = token) - 1
  ELSE 1

\* No vocabulary is stored at the store location.
NoVocab == <<>>

\* A dataset that always builds and stores a vocabulary when it is a train
\* dataset, and loads the stored one otherwise.
ConstructDatasetByType(store, tokens, dataset_type, max_num_words) ==
  IF dataset_type # "train" /\ store # NoVocab
  THEN [dataset |-> [dataset_type |-> dataset_type, tokens |-> tokens,
                     vocab |-> store, built |-> FALSE],
        store   |-> store]
  ELSE LET Built(v) == [dataset |-> [dataset_type |-> dataset_type, tokens |-> tokens,
                                     vocab |-> v, built |-> TRUE],
                        store   |-> v]
       IN  Built(BuildVocab(tokens, max_num_words))

\* The constructor of a dataset over the tokens of its file: "Vocabulary once
\* built will be stored in this location.  If the vocabulary already exists
\* then it will be loaded from the filepath".
ConstructDataset(store, tokens, dataset_type, max_num_words) ==
  IF store # NoVocab
  THEN [dataset |-> [dataset_type |-> dataset_type, tokens |-> tokens,
                     vocab |-> store, built |-> FALSE],
        store   |-> store]
  ELSE LET Built(v) == [dataset |-> [dataset_type |-> dataset_type, tokens |-> tokens,
                                     vocab |-> v, built |-> TRUE],
                        store   |-> v]
       IN  Built(BuildVocab(tokens, max_num_words))

\* The runs of the client on one experiment name, the tokens of a file and
\* --max_num_words.
MaxRuns == 2

MaxCorpus == 3

Corpora == SeqsUpTo({"a", "b"}, MaxCorpus) \ {<<>>}

MaxNumWords == {5, 6}

\* No run of the client has started.
NoExperiment ==
  [pc |-> "idle", runs |-> 0, train_tokens |-> <<>>, test_tokens |-> <<>>,
   max_num_words |-> 0, store_at_start |-> NoVocab, datasets |-> <<>>]


(***************************************************************************)
(* Packing to a length                                                     *)
(***************************************************************************)
\* The first n elements of a list: list[:n] for n >= 0
FirstN(list, n) == SubSeq(list, 1, IF n < Len(list) THEN n ELSE Len(list))

\* list followed by n copies of pad_token (none when n <= 0)
PadRight(list, n, pad_token) == list \o [k \in 1..n |-> pad_token]

\* A pack that truncates to max_length and puts the markers around the result.
PackToLengthMarksOutside(tokenized_text, max_length, pad_token, add_start_end_token, start_token, end_token) ==
  LET kept == FirstN(tokenized_text, max_length)
      text == IF add_start_end_token THEN <<start_token>> \o kept \o <<end_token>>
              ELSE kept
  IN  PadRight(text, max_length - Len(kept), pad_token)

\* A pack that inserts the markers whatever add_start_end_token is.
PackToLengthAlwaysMarks(tokenized_text, max_length, pad_token, add_start_end_token, start_token, end_token) ==
  LET room   == IF max_length > 2 THEN max_length - 2 ELSE 0
      marked == <<start_token>> \o FirstN(tokenized_text, room) \o <<end_token>>
      text   == FirstN(marked, max_length)
  IN  PadRight(text, max_length - Len(text), pad_token)

\* pack_to_length(tokenized_text, max_length, pad_token, add_start_end_token,
\* start_token, end_token): the earliest tokens are kept, the markers count
\* toward max_length, the text is right-padded, and the length of the
\* result is max_length.
PackToLength(tokenized_text, max_length, pad_token, add_start_end_token, start_token, end_token) ==
  LET room   == IF max_length > 2 THEN max_length - 2 ELSE 0
      marked == IF add_start_end_token
                THEN <<start_token>> \o FirstN(tokenized_text, room) \o <<end_token>>
                ELSE tokenized_text
      text   == FirstN(marked, max_length)
  IN  PadRight(text, max_length - Len(text), pad_token)

\* The greatest of a non-empty list of lengths: sorted(lengths, reverse=True)[0]
Longest(lengths) == CHOOSE n \in Range(lengths) : \A m \in Range(lengths) : m <= n

\* BertEmbedder.forward up to padded_tokenized_text, on the tokenized texts of
\* the batch; sorted(...)[0] of an empty batch raises IndexError.
Forward(tokenized_text) ==
  IF tokenized_text = <<>>
  THEN [status |-> "raised", err |-> "IndexError", max_len |-> 0,
        padded_tokenized_text |-> <<>>]
  ELSE LET lengths == [k \in DOMAIN tokenized_text |-> Len(tokenized_text[k])]
           max_len == Longest(lengths)
       IN  [status |-> "returned", err |-> "none", max_len |-> max_len,
            padded_tokenized_text |->
              [k \in DOMAIN tokenized_text |->
                 PackToLength(tokenized_text[k], max_len, "[PAD]", TRUE, "[CLS]", "[SEP]")]]

\* The tokens of a text, the instances of a batch and max_length.
MaxPackTokens == 3

MaxBatch == 2

MaxLength == 4

TokenLists == SeqsUpTo({"a", "b"}, MaxPackTokens)

Batches == SeqsUpTo(TokenLists, MaxBatch)

\* Nothing is packed yet.
NoPacking ==
  [op |-> "none", x |-> <<>>, max_length |-> 0, add_start_end_token |-> FALSE,
   packed |-> <<>>, repacked |-> <<>>,
   status |-> "none", err |-> "none", max_len |-> 0, padded_tokenized_text |-> <<>>]

(***************************************************************************)
(* BaseTextClassification.__init__                                         *)
(***************************************************************************)
\* line 107
allowable_dataset_types == <<"train", "valid", "test">>

\* A check that also takes "validation" for a dataset type.
IsAllowableOrValidation(dataset_type) ==
  dataset_type \in Range(allowable_dataset_types) \cup {"validation"}

\* line 111: self.dataset_type in self.allowable_dataset_types
IsAllowable(dataset_type) == dataset_type \in Range(allowable_dataset_types)

\* No object.
NoObject == [dataset_type |-> "", max_length |-> 0, debug |-> FALSE,
             train_size |-> 0, validation_size |-> 0, test_size |-> 0]

\* __init__(filename, dataset_type, max_num_words, max_length, ...): the
\* fields are set (lines 87-107), the divider is printed, and the assertion
\* of lines 111-114 ends the construction of a dataset of another type.
BaseTextClassificationInit(args) ==
  IF ~IsAllowable(args.dataset_type)
  THEN [status |-> "raised", err |-> "AssertionError", object |-> NoObject]
  ELSE [status |-> "returned", err |-> "none",
        object |-> [dataset_type |-> args.dataset_type, max_length |-> args.max_length,
                    debug |-> args.debug, train_size |-> args.sizes.train_size,
                    validation_size |-> args.sizes.validation_size,
                    test_size |-> args.sizes.test_size]]

\* The dataset types a caller passes: the three of line 107, and others.
DatasetTypes == {"train", "valid", "test", "Train", "validation", "dev", ""}

\* The arguments of a construction.
ConstructorArgs ==
  [dataset_type : DatasetTypes, max_length : 1..MaxLength, debug : BOOLEAN,
   sizes : SplitSizes]

\* Nothing is constructed yet.
NoConstruction ==
  [status |-> "none", err |-> "none", object |-> NoObject,
   args |-> [dataset_type |-> "", max_length |-> 0, debug |-> FALSE,
             sizes |-> [train_size |-> 0, test_size |-> 0, validation_size |-> 0]]]

(***************************************************************************)
(* The state machine                                                       *)
(***************************************************************************)
VARIABLES
  folder,   \* the documents of self.folderpath, in the order of self.file_ids
  files,    \* the files of DATA_DIR, by name
  call,     \* the last call made and its arguments
  result,   \* what that call gave back
  open_files,  \* the files the calls have opened and not closed
  dataset,  \* the lines and labels of a classification dataset, and its sizes
  split,    \* what get_train_valid_test_stratified_split gave back
  constructed,  \* the arguments of BaseTextClassification(...) and what it gave
  vocab_store,  \* the vocabulary stored at VOCAB_STORE_LOCATION
  experiment,   \* the run of the client on the experiment and its datasets
  packing       \* the texts to pack, and what the packing gave back

vars == <<folder, files, call, result, open_files, dataset, split, constructed, vocab_store, experiment, packing>>

splitVars == <<dataset, split, constructed>>

experimentVars == <<vocab_store, experiment>>

ieVars == <<folder, files, call, result, open_files>>

NoCall == [op |-> "none", file_id |-> 0, entity |-> <<>>, is_sentence_wise |-> FALSE]

NoResult == Outcome("none", <<>>, <<>>, "none")

EntityTypes == Range(entity_types)

\* The state after construction, for a folder of one document.
InitWith(pool, max_lines, docs) ==
  /\ folder \in {<<Document(ann, doc)>> : ann \in SeqsUpTo(pool, max_lines), doc \in docs}
  /\ files = [n \in FileNames |-> NoFile]
  /\ call = NoCall
  /\ result = NoResult
  /\ open_files = {}
  /\ dataset = NoDataset
  /\ split = NoSplit
  /\ constructed = NoConstruction
  /\ vocab_store = NoVocab
  /\ experiment = NoExperiment
  /\ packing = NoPacking

Init == InitWith(ConversionPool, MaxLines, Docs)

InitLoader == InitWith(LoaderPool, MaxAnnLines, {TwoWordDoc})

\* The state before a dataset is split.
InitSplit ==
  /\ folder = <<>>
  /\ files = [n \in FileNames |-> NoFile]
  /\ call = NoCall
  /\ result = NoResult
  /\ open_files = {}
  /\ dataset \in {d \in Datasets : Len(d.lines) \in {Len(d.labels), Len(d.labels) + 1}}
                   \cup GroupedDatasets
  /\ split = NoSplit
  /\ constructed = NoConstruction
  /\ vocab_store = NoVocab
  /\ experiment = NoExperiment
  /\ packing = NoPacking

\* _get_annotations_for_entity(file_id, entity)
CallGetAnnotationsForEntity(file_id, entity) ==
  /\ call.op = "none"
  /\ call' = [op |-> "_get_annotations_for_entity", file_id |-> file_id,
              entity |-> entity, is_sentence_wise |-> FALSE]
  /\ result' = LoadAnnotations(folder[file_id], entity)
  /\ open_files' = open_files \cup LoaderHandles(file_id, folder[file_id], entity)
  /\ UNCHANGED <<folder, files, splitVars, experimentVars, packing>>

\* get_bilou_lines_for_entity(file_id, entity)
CallGetBilouLinesForEntity(file_id, entity) ==
  /\ call.op = "none"
  /\ call' = [op |-> "get_bilou_lines_for_entity", file_id |-> file_id,
              entity |-> entity, is_sentence_wise |-> FALSE]
  /\ result' = GetBilouLinesForEntity(folder[file_id], entity)
  /\ open_files' = open_files \cup ConversionHandles(file_id, folder[file_id], entity)
  /\ UNCHANGED <<folder, files, splitVars, experimentVars, packing>>

\* get_sentence_wise_bilou_lines(file_id, entity_type)
CallGetSentenceWiseBilouLines(file_id, entity_type) ==
  /\ call.op = "none"
  /\ call' = [op |-> "get_sentence_wise_bilou_lines", file_id |-> file_id,
              entity |-> entity_type, is_sentence_wise |-> TRUE]
  /\ result' = GetSentenceWiseBilouLines(folder[file_id], entity_type)
  /\ open_files' = open_files \cup ConversionHandles(file_id, folder[file_id], entity_type)
  /\ UNCHANGED <<folder, files, splitVars, experimentVars, packing>>

\* write_bilou_lines(out_filename, is_sentence_wise)
CallWriteBilouLines(is_sentence_wise) ==
  /\ call.op = "none"
  /\ LET Done(r) == /\ files' = r.files
                    /\ result' = Outcome(r.status, <<>>, <<>>, r.err)
     IN  Done(WriteBilouLines(folder, is_sentence_wise, files))
  /\ open_files' = open_files \cup WriteBilouHandles(folder, 1, is_sentence_wise)
  /\ call' = [op |-> "write_bilou_lines", file_id |-> 0, entity |-> <<>>,
              is_sentence_wise |-> is_sentence_wise]
  /\ UNCHANGED <<folder, splitVars, experimentVars, packing>>

\* merge_files(...) on the three files write_bilou_lines has written, as in
\* the script of lines 333-340
CallMergeFiles ==
  /\ call.op = "write_bilou_lines"
  /\ result.status = "returned"
  /\ LET Done(r) == /\ files' = r.files
                    /\ result' = Outcome(r.status, <<>>, <<>>, r.err)
                    /\ open_files' = open_files \cup MergeHandles(r)
     IN  Done(MergeFiles(files))
  /\ call' = [call EXCEPT !.op = "merge_files"]
  /\ UNCHANGED <<folder, splitVars, experimentVars, packing>>

\* write_ann_file_from_conll_file on the merged file of a document and the
\* text of that document, the file being the one merge_files has written or
\* one that is there from the start
CallWriteAnnFileFromConllFile(file_id) ==
  /\ call.op \in {"none", "merge_files"}
  /\ call.op = "merge_files" => result.status = "returned"
  /\ files["merged"] # NoFile
  /\ LET Done(r) == /\ files' = r.files
                    /\ result' = Outcome(r.status, <<>>, <<>>, r.err)
                    /\ open_files' = open_files \cup WriteAnnHandles(files, r)
     IN  Done(WriteAnnFileFromConllFile(files, folder[file_id].doc))
  /\ call' = [call EXCEPT !.op = "write_ann_file_from_conll_file", !.file_id = file_id]
  /\ UNCHANGED <<folder, splitVars, experimentVars, packing>>

Next ==
  \/ \E file_id \in DOMAIN folder, entity \in EntityTypes :
        CallGetAnnotationsForEntity(file_id, entity)
  \/ \E file_id \in DOMAIN folder, entity \in EntityTypes :
        CallGetBilouLinesForEntity(file_id, entity)
  \/ \E file_id \in DOMAIN folder, entity \in EntityTypes :
        CallGetSentenceWiseBilouLines(file_id, entity)
  \/ \E is_sentence_wise \in BOOLEAN : CallWriteBilouLines(is_sentence_wise)
  \/ CallMergeFiles
  \/ \E file_id \in DOMAIN folder : CallWriteAnnFileFromConllFile(file_id)

\* Conversions and the file pipeline over every Doc.
Spec == Init /\ [][Next]_vars

\* The annotation loader over well-formed and malformed lines.
SpecLoader == InitLoader /\ [][Next]_vars

\* The documents of a folder of several files: a Doc of the bounds with no
\* annotation or with a Task entity over its first character.
MaxFolder == 2

FolderDocuments ==
  {Document(ann, doc) :
     ann \in {<<>>, <<AnnLine(<<"T", "1">>, <<"Task">>, <<"0">>, <<"1">>, <<"w">>)>>},
     doc \in Docs}

\* The state after construction, for a folder of MaxFolder documents;
\* self.file_ids lists them once, at line 23.
InitFolder ==
  /\ folder \in {f \in SeqsUpTo(FolderDocuments, MaxFolder) : Len(f) = MaxFolder}
  /\ files = [n \in FileNames |-> NoFile]
  /\ call = NoCall
  /\ result = NoResult
  /\ open_files = {}
  /\ dataset = NoDataset
  /\ split = NoSplit
  /\ constructed = NoConstruction
  /\ vocab_store = NoVocab
  /\ experiment = NoExperiment
  /\ packing = NoPacking

\* Conversions and the file pipeline over a folder of several documents.
SpecFolder == InitFolder /\ [][Next]_vars

\* The state before an annotation file is written from a CoNLL file that
\* holds the tags of a document.
InitAnn ==
  /\ folder \in {<<Document(<<>>, doc)>> : doc \in Docs \ {<<>>}}
  /\ files \in {[n \in FileNames |-> IF n = "merged" THEN text ELSE NoFile] :
                  text \in ConllFilesOf(folder[1].doc)}
  /\ call = NoCall
  /\ result = NoResult
  /\ open_files = {}
  /\ dataset = NoDataset
  /\ split = NoSplit
  /\ constructed = NoConstruction
  /\ vocab_store = NoVocab
  /\ experiment = NoExperiment
  /\ packing = NoPacking

\* _get_annotations_for_entity(file_id, entity) of a utility over the folder
\* of ann_filepath, on the file write_ann_file_from_conll_file has written
CallGetAnnotationsForWrittenFile(entity) ==
  /\ call.op = "write_ann_file_from_conll_file"
  /\ result.status = "returned"
  /\ call' = [call EXCEPT !.op = "_get_annotations_for_entity of ann_filepath",
                          !.entity = entity]
  /\ result' = LoadAnnotations(Document(ReadLines(files["ann"]), folder[call.file_id].doc), entity)
  /\ open_files' = open_files \cup WithOpen({DataPath("ann")}, GetAnnotationsForEntity(ReadLines(files["ann"]), entity).status)
  /\ UNCHANGED <<folder, files, splitVars, experimentVars, packing>>

NextAnn ==
  \/ \E file_id \in DOMAIN folder : CallWriteAnnFileFromConllFile(file_id)
  \/ \E entity \in EntityTypes : CallGetAnnotationsForWrittenFile(entity)

\* Annotation files written from CoNLL files and read back.
SpecAnn == InitAnn /\ [][NextAnn]_vars

\* get_train_valid_test_stratified_split(lines, labels, classname2idx) on the
\* dataset
CallGetTrainValidTestStratifiedSplit ==
  /\ split.status = "none"
  /\ split' \in GetTrainValidTestStratifiedSplit(dataset.lines, dataset.labels, dataset.sizes)
  /\ UNCHANGED <<ieVars, dataset, constructed, experimentVars, packing>>

NextSplit == CallGetTrainValidTestStratifiedSplit

\* The stratified split over every dataset.
SpecSplit == InitSplit /\ [][NextSplit]_vars

\* The state before the client runs: no vocabulary is stored.
InitExperiment ==
  /\ folder = <<>>
  /\ files = [n \in FileNames |-> NoFile]
  /\ call = NoCall
  /\ result = NoResult
  /\ open_files = {}
  /\ dataset = NoDataset
  /\ split = NoSplit
  /\ constructed = NoConstruction
  /\ vocab_store = NoVocab
  /\ experiment = NoExperiment
  /\ packing = NoPacking

\* The client starts on the experiment name: it keeps an experiment directory
\* that exists, and write_nfold_parscit_train_test writes the train and test
\* files of this run.
StartRun(train_tokens, test_tokens, max_num_words) ==
  /\ experiment.pc \in {"idle", "done"}
  /\ experiment.runs < MaxRuns
  /\ experiment' = [pc |-> "train", runs |-> experiment.runs + 1,
                    train_tokens |-> train_tokens, test_tokens |-> test_tokens,
                    max_num_words |-> max_num_words,
                    store_at_start |-> vocab_store, datasets |-> <<>>]
  /\ UNCHANGED <<ieVars, splitVars, vocab_store, packing>>

\* One ParscitDataset(...) of the client, over the tokens of its file.
Construct(pc, next_pc, tokens, dataset_type) ==
  /\ experiment.pc = pc
  /\ LET Done(r) ==
           /\ vocab_store' = r.store
           /\ experiment' = [experiment EXCEPT
                               !.pc = next_pc,
                               !.datasets = Append(experiment.datasets, r.dataset)]
     IN  Done(ConstructDataset(vocab_store, tokens, dataset_type,
                               experiment.max_num_words))
  /\ UNCHANGED <<ieVars, splitVars, packing>>

\* train_dataset = ParscitDataset(train file, dataset_type="train", ...)
ConstructTrainDataset == Construct("train", "valid", experiment.train_tokens, "train")

\* validation_dataset = ParscitDataset(test file, dataset_type="valid", ...)
ConstructValidationDataset == Construct("valid", "test", experiment.test_tokens, "valid")

\* test_dataset = ParscitDataset(test file, dataset_type="train", ...)
ConstructTestDataset == Construct("test", "done", experiment.test_tokens, "train")

\* The fixture of the inference test, on the finished experiment:
\* test_dataset = ParscitDataset(cora file, dataset_type="test", ...) with the
\* store location and MAX_NUM_WORDS of the experiment's config.json.
SetupBaseParscitInference(cora_tokens) ==
  /\ Len(experiment.datasets) = 3
  /\ Construct("done", "done", cora_tokens, "test")

NextExperiment ==
  \/ \E train_tokens \in Corpora, test_tokens \in Corpora, max_num_words \in MaxNumWords :
        StartRun(train_tokens, test_tokens, max_num_words)
  \/ ConstructTrainDataset
  \/ ConstructValidationDataset
  \/ ConstructTestDataset
  \/ \E cora_tokens \in Corpora : SetupBaseParscitInference(cora_tokens)

\* The state before a dataset is constructed: the arguments of the call.
InitConstruct ==
  /\ folder = <<>>
  /\ files = [n \in FileNames |-> NoFile]
  /\ call = NoCall
  /\ result = NoResult
  /\ open_files = {}
  /\ dataset = NoDataset
  /\ split = NoSplit
  /\ constructed \in {[NoConstruction EXCEPT !.args = args] : args \in ConstructorArgs}
  /\ vocab_store = NoVocab
  /\ experiment = NoExperiment
  /\ packing = NoPacking

\* BaseTextClassification.__init__(...) through a dataset class
CallInit ==
  /\ constructed.status = "none"
  /\ LET Done(r) == constructed' = [constructed EXCEPT !.status = r.status,
                                                       !.err = r.err,
                                                       !.object = r.object]
     IN  Done(BaseTextClassificationInit(constructed.args))
  /\ UNCHANGED <<ieVars, dataset, split, experimentVars, packing>>

NextConstruct == CallInit

\* The construction of a dataset over every argument.
SpecConstruct == InitConstruct /\ [][NextConstruct]_vars

\* The runs of the client on one experiment name.
SpecExperiment == InitExperiment /\ [][NextExperiment]_vars

\* The state before a batch is packed: the tokenized texts of the batch, and
\* the max_length and add_start_end_token of a call of pack_to_length.
InitPack ==
  /\ folder = <<>>
  /\ files = [n \in FileNames |-> NoFile]
  /\ call = NoCall
  /\ result = NoResult
  /\ open_files = {}
  /\ dataset = NoDataset
  /\ split = NoSplit
  /\ constructed = NoConstruction
  /\ vocab_store = NoVocab
  /\ experiment = NoExperiment
  /\ packing \in {[NoPacking EXCEPT !.x = x, !.max_length = max_length,
                                   !.add_start_end_token = add_start_end_token] :
                     x \in Batches, max_length \in 0..MaxLength,
                     add_start_end_token \in BOOLEAN}

\* pack_to_length(x[i], max_length, "[PAD]", add_start_end_token, "[CLS]", "[SEP]")
CallPackToLength(i) ==
  /\ packing.op = "none"
  /\ packing' = [packing EXCEPT
                   !.op = "pack_to_length",
                   !.packed = PackToLength(packing.x[i], packing.max_length, "[PAD]",
                                           packing.add_start_end_token, "[CLS]", "[SEP]")]
  /\ UNCHANGED <<ieVars, splitVars, experimentVars>>

\* pack_to_length of what pack_to_length gave, with the same arguments
CallPackToLengthAgain ==
  /\ packing.op = "pack_to_length"
  /\ packing' = [packing EXCEPT
                   !.op = "pack_to_length again",
                   !.repacked = PackToLength(packing.packed, packing.max_length, "[PAD]",
                                             packing.add_start_end_token, "[CLS]", "[SEP]")]
  /\ UNCHANGED <<ieVars, splitVars, experimentVars>>

\* BertEmbedder.forward on the batch
CallForward ==
  /\ packing.op = "none"
  /\ LET Done(r) == packing' = [packing EXCEPT
                                  !.op = "forward", !.status = r.status, !.err = r.err,
                                  !.max_len = r.max_len,
                                  !.padded_tokenized_text = r.padded_tokenized_text]
     IN  Done(Forward(packing.x))
  /\ UNCHANGED <<ieVars, splitVars, experimentVars>>

NextPack ==
  \/ \E i \in DOMAIN packing.x : CallPackToLength(i)
  \/ CallPackToLengthAgain
  \/ CallForward

\* Packing over every batch.
SpecPack == InitPack /\ [][NextPack]_vars

(***************************************************************************)
(* Vocabulary of the properties                                            *)
(***************************************************************************)
\* The document the last call was made on.
CalledDocument == folder[call.file_id]

IsLoaderCall == call.op = "_get_annotations_for_entity"

IsWholeCall == call.op = "get_bilou_lines_for_entity"

IsSentenceCall == call.op = "get_sentence_wise_bilou_lines"

IsConversionCall == IsWholeCall \/ IsSentenceCall

\* A line in the format of the annotation file: it starts with "T", has three
\* tab-separated fields, and its middle field is "tag start end" with start
\* and end numbers.
WellFormedLine(line) ==
  /\ StartsWith(line, "T")
  /\ Len(Split(line, TAB)) = 3
  /\ LET mid == SplitWs(Split(line, TAB)[2])
     IN  Len(mid) = 3 /\ IsInt(mid[2]) /\ IsInt(mid[3])

\* The tag of a well-formed line.
LineTag(line) == SplitWs(Split(line, TAB)[2])[1]

\* The annotation a well-formed line stands for; words is the third field as
\* read, the line terminator included.
AnnotationOfLine(line) ==
  LET f   == Split(line, TAB)
      mid == SplitWs(f[2])
  IN  [start |-> IntOf(mid[2]), end |-> IntOf(mid[3]), words |-> f[3],
       entity_number |-> f[1], tag |-> mid[1]]

\* The well-formed lines of an annotation file with the tag of an entity type
\* in any letter case, in file order.
LinesOfEntity(ann, entity) ==
  SelectSeq(ann, LAMBDA line : WellFormedLine(line) /\ Lower(LineTag(line)) = Lower(entity))

\* Whether the loader returns for a file: no entity line has a start or an end
\* that is no number.
Loads(ann) ==
  \A k \in DOMAIN ann :
    LET f == Split(ann[k], TAB)
    IN  (StartsWith(Strip(ann[k]), "T") /\ Len(f) = 3 /\ Len(SplitWs(f[2])) = 3)
          => (IsInt(SplitWs(f[2])[2]) /\ IsInt(SplitWs(f[2])[3]))

\* The lines a conversion call returned, the sentences one after the other.
EmittedLines ==
  IF result.status # "returned" THEN <<>>
  ELSE IF IsSentenceCall THEN Flatten(result.value)
  ELSE result.value

\* The columns of an emitted line.
Columns(line) == Split(line, SP)

\* The tag in the second column of an emitted line, as a sequence of units.
EmittedTag(line) ==
  LET rest == SubSeq(line, 3, Len(line))
  IN  Split(rest, SP)[1]

\* The token of a Doc an emitted line was written for (the texts of the
\* words of a Doc of the model are pairwise different), 0 when there is none.
TokenOfLine(doc, line) ==
  IF \E i \in DOMAIN doc : doc[i].text = <<line[1]>>
  THEN CHOOSE i \in DOMAIN doc : doc[i].text = <<line[1]>>
  ELSE 0

\* The character offsets of a token.
TokenChars(token) == token.idx .. (TokenEnd(token) - 1)

\* The character offsets of an annotation.
AnnotationChars(a) == a.start .. (a.end - 1)

\* An annotation is aligned when it starts where a token starts and ends
\* where a token ends.
Aligned(doc, a) ==
  /\ \E i \in DOMAIN doc : doc[i].idx = a.start
  /\ \E i \in DOMAIN doc : TokenEnd(doc[i]) = a.end

\* The tokens an aligned annotation covers.
CoveredTokens(doc, a) == {i \in DOMAIN doc : TokenChars(doc[i]) \subseteq AnnotationChars(a)}

\* The BILOU tag of the i-th token of an annotation that covers the tokens
\* first..last.
ExpectedTag(i, first, last, tag) ==
  IF first = last THEN <<"U", "-">> \o tag
  ELSE IF i = first THEN <<"B", "-">> \o tag
  ELSE IF i = last THEN <<"L", "-">> \o tag
  ELSE <<"I", "-">> \o tag

\* The outside tag of an entity type.
OutsideTag(entity) == <<"O", "-">> \o entity

\* The annotations of the entity type the last call asked for.
CalledAnnotations ==
  LET sel == LinesOfEntity(CalledDocument.ann, call.entity)
  IN  [k \in DOMAIN sel |-> AnnotationOfLine(sel[k])]

SkippedLines == {result.warnings[k].line : k \in {j \in DOMAIN result.warnings :
                                                   result.warnings[j].kind = "skipping"}}

\* C2: the loader never aborts, and every line that is not in the format of
\* the annotation file is skipped with a warning.
C2_MalformedLinesAreSkippedWithAWarning ==
  IsLoaderCall
    => /\ result.status = "returned"
       /\ \A k \in DOMAIN CalledDocument.ann :
            ~WellFormedLine(CalledDocument.ann[k])
              => CalledDocument.ann[k] \in SkippedLines

\* Whether no entity line of the file has the tag of the entity type.
NoLineOfEntity(ann, entity) ==
  \A k \in DOMAIN ann :
    LET f == Split(ann[k], TAB)
    IN  ~(/\ StartsWith(ann[k], "T")
          /\ Len(f) = 3
          /\ Len(SplitWs(f[2])) = 3
          /\ Lower(SplitWs(f[2])[1]) = Lower(entity))

\* C3: for a document with no annotation of the requested entity type the
\* loader returns the empty list with a warning and does not raise, and the
\* BILOU conversion of the document returns with every line tagged O-<entity>.
C3_ZeroAnnotationsIsNoError ==
  ((IsLoaderCall \/ IsWholeCall) /\ NoLineOfEntity(CalledDocument.ann, call.entity))
    => /\ result.status = "returned"
       /\ \E k \in DOMAIN result.warnings : result.warnings[k].kind = "zero"
       /\ IsLoaderCall => result.value = <<>>
       /\ IsWholeCall =>
            \A k \in DOMAIN result.value :
              EmittedTag(result.value[k]) = OutsideTag(call.entity)

(***************************************************************************)
(* BILOU conversion: C4, C5, C6, C7                                        *)
(***************************************************************************)
\* Whether the emitted lines of the tokens of an aligned annotation carry
\* U-<tag>, or B-<tag>, I-<tag>..., L-<tag>.
TaggedAsEntity(doc, a) ==
  LET covered == CoveredTokens(doc, a)
      first   == CHOOSE i \in covered : \A j \in covered : i <= j
      last    == CHOOSE i \in covered : \A j \in covered : j <= i
  IN  \A k \in DOMAIN EmittedLines :
        LET i == TokenOfLine(doc, EmittedLines[k])
        IN  i \in covered
              => EmittedTag(EmittedLines[k]) = ExpectedTag(i, first, last, a.tag)

\* Whether the emitted line of every token that shares no character with an
\* annotation carries O-<entity>.
UncoveredTaggedOutside(doc, annotations) ==
  \A k \in DOMAIN EmittedLines :
    LET i == TokenOfLine(doc, EmittedLines[k])
    IN  (\A n \in DOMAIN annotations :
           TokenChars(doc[i]) \cap AnnotationChars(annotations[n]) = {})
          => EmittedTag(EmittedLines[k]) = OutsideTag(call.entity)

\* Whether every non-space token has an emitted line.
EveryWordEmitted(doc) ==
  \A i \in DOMAIN doc :
    ~IsSpaceToken(doc[i])
      => \E k \in DOMAIN EmittedLines : TokenOfLine(doc, EmittedLines[k]) = i

\* C4 as claimed: every annotation aligned to token boundaries is tagged U or
\* B, I..., L, and every token no annotation covers O-<entity>.
C4_AlignedAnnotationsAreTagged ==
  (IsConversionCall /\ result.status = "returned")
    => /\ EveryWordEmitted(CalledDocument.doc)
       /\ \A n \in DOMAIN CalledAnnotations :
            Aligned(CalledDocument.doc, CalledAnnotations[n])
              => TaggedAsEntity(CalledDocument.doc, CalledAnnotations[n])
       /\ UncoveredTaggedOutside(CalledDocument.doc, CalledAnnotations)

\* Whether annotation n shares no character with another annotation of the
\* list.
Disjoint(annotations, n) ==
  \A m \in DOMAIN annotations :
    m # n => AnnotationChars(annotations[m]) \cap AnnotationChars(annotations[n]) = {}

\* C4 as amended: every annotation that is aligned to token boundaries and
\* shares no character with another annotation of the requested type is
\* tagged U-<tag> when it covers one token and B-<tag>, I-<tag>..., L-<tag>
\* when it covers several, and every token that shares no character with an
\* annotation is tagged O-<entity>.
C4_DisjointAlignedAnnotationsAreTagged ==
  (IsConversionCall /\ result.status = "returned")
    => /\ EveryWordEmitted(CalledDocument.doc)
       /\ \A n \in DOMAIN CalledAnnotations :
            (Aligned(CalledDocument.doc, CalledAnnotations[n])
               /\ Disjoint(CalledAnnotations, n))
              => TaggedAsEntity(CalledDocument.doc, CalledAnnotations[n])
       /\ UncoveredTaggedOutside(CalledDocument.doc, CalledAnnotations)

\* C4 witness: a whole-document conversion of three words returned B, L for
\* an annotation of two tokens and U for an annotation of one.
C4_Witness ==
  /\ IsWholeCall
  /\ result.status = "returned"
  /\ call.entity = <<"Task">>
  /\ Len(CalledAnnotations) = 2
  /\ Disjoint(CalledAnnotations, 1)
  /\ Aligned(CalledDocument.doc, CalledAnnotations[1])
  /\ Aligned(CalledDocument.doc, CalledAnnotations[2])
  /\ Len(result.value) = 3
  /\ EmittedTag(result.value[1]) = <<"B", "-", "Task">>
  /\ EmittedTag(result.value[2]) = <<"L", "-", "Task">>
  /\ EmittedTag(result.value[3]) = <<"U", "-", "Task">>

\* Whether every annotation that shares a character with a token is not
\* aligned to token boundaries.
OnlyMisaligned(doc, annotations, i) ==
  \A n \in DOMAIN annotations :
    TokenChars(doc[i]) \cap AnnotationChars(annotations[n]) # {}
      => ~Aligned(doc, annotations[n])

\* C5: in whole-document and in sentence-wise conversion no line carries the
\* bare tag O or the marker "-"; the line of a token that shares a character
\* with no annotation, or only with annotations that are not aligned to token
\* boundaries, carries O-<entity>; and the conversion of a document that has
\* a token returns, whatever the alignment of its annotations.
C5_OutsideTagsAreQualified ==
  IsConversionCall
    => /\ CalledDocument.doc # <<>> => result.status = "returned"
       /\ \A k \in DOMAIN EmittedLines :
            LET tag == EmittedTag(EmittedLines[k])
                i   == TokenOfLine(CalledDocument.doc, EmittedLines[k])
            IN  /\ tag \notin {<<"O">>, <<"-">>}
                /\ tag[1] \in {"B", "I", "L", "U", "O"}
                /\ OnlyMisaligned(CalledDocument.doc, CalledAnnotations, i)
                     => tag = OutsideTag(call.entity)

\* C5 witness: a sentence-wise conversion returned O-Task for a token that an
\* annotation covers without being aligned to token boundaries.
C5_Witness ==
  /\ IsSentenceCall
  /\ result.status = "returned"
  /\ call.entity = <<"Task">>
  /\ Len(CalledAnnotations) = 1
  /\ ~Aligned(CalledDocument.doc, CalledAnnotations[1])
  /\ \E k \in DOMAIN EmittedLines :
       LET i == TokenOfLine(CalledDocument.doc, EmittedLines[k])
       IN  /\ TokenChars(CalledDocument.doc[i])
                \cap AnnotationChars(CalledAnnotations[1]) # {}
           /\ EmittedTag(EmittedLines[k]) = <<"O", "-", "Task">>

\* The texts of the tokens of a Doc that are not white space, in token order.
WordTexts(doc) ==
  LET words == SelectSeq(doc, LAMBDA token : ~IsSpaceToken(token))
  IN  [k \in DOMAIN words |-> words[k].text]

\* C6: the emitted output holds exactly one line per token that is not white
\* space, in token order, the token text followed by its tag (in each of the
\* three tag columns); white-space tokens give no line, in both modes.
C6_OneLinePerWord ==
  (IsConversionCall /\ result.status = "returned")
    => /\ [k \in DOMAIN EmittedLines |-> <<EmittedLines[k][1]>>]
            = WordTexts(CalledDocument.doc)
       /\ \A k \in DOMAIN EmittedLines :
            LET c == Columns(EmittedLines[k])
            IN  Len(c) = 4 /\ c[2] = c[3] /\ c[3] = c[4]

\* Whether no token after the first starts a sentence.
NoSentenceBoundary(doc) == \A i \in 2..Len(doc) : ~doc[i].is_sent_start

\* C7: sentence-wise conversion of a document (with at least one token) in
\* which no token after the first starts a sentence returns exactly one
\* sentence, equal to what get_bilou_lines_for_entity returns for the same
\* document and entity type.
C7_NoBoundaryGivesOneSentence ==
  (IsSentenceCall /\ CalledDocument.doc # <<>>
     /\ NoSentenceBoundary(CalledDocument.doc))
    => /\ result.status = "returned"
       /\ Len(result.value) = 1
       /\ result.value[1] = GetBilouLinesForEntity(CalledDocument, call.entity).value

\* C7 witness: a sentence-wise conversion of three tokens, one of them white
\* space, without a sentence boundary returned one sentence of two lines.
C7_Witness ==
  /\ IsSentenceCall
  /\ result.status = "returned"
  /\ Len(CalledDocument.doc) = 3
  /\ NoSentenceBoundary(CalledDocument.doc)
  /\ \E i \in DOMAIN CalledDocument.doc : IsSpaceToken(CalledDocument.doc[i])
  /\ Len(result.value) = 1
  /\ Len(result.value[1]) = 2
  /\ Len(CalledAnnotations) = 1

(***************************************************************************)
(* The CoNLL files: C8, C9                                                 *)
(***************************************************************************)
\* Whether a line of a file is blank.
IsBlank(line) == SplitWs(line) = <<>>

\* C8: merge_files on the three files write_bilou_lines wrote returns and
\* writes one line per input line: a blank line for a blank line, and for any
\* other line the space-separated columns token, Task tag, Process tag,
\* Material tag, each tag taken from the file of its entity type.
C8_MergeKeepsEveryLine ==
  call.op = "merge_files"
    => /\ result.status = "returned"
       /\ LET task     == ReadLines(files["task"])
              process  == ReadLines(files["process"])
              material == ReadLines(files["material"])
              merged   == ReadLines(files["merged"])
          IN  /\ Len(merged) = Len(task)
              /\ Len(merged) = Len(process)
              /\ Len(merged) = Len(material)
              /\ \A k \in DOMAIN merged :
                   IF IsBlank(task[k]) THEN merged[k] = <<NL>>
                   ELSE merged[k] =
                          Join(<<SP>>, <<SplitWs(task[k])[1], SplitWs(task[k])[2],
                                         SplitWs(process[k])[2],
                                         SplitWs(material[k])[2]>>) \o <<NL>>

\* C8 witness: a merged file of two sentences in which a line carries an
\* entity tag in the Task column and another in the Process and Material
\* columns.
C8_Witness ==
  /\ call.op = "merge_files"
  /\ result.status = "returned"
  /\ call.is_sentence_wise
  /\ LET merged == ReadLines(files["merged"])
     IN  /\ \E k \in DOMAIN merged :
              SplitWs(merged[k]) = << <<"a">>, <<"B", "-", "Task">>,
                                      <<"U", "-", "Process">>, <<"O", "-", "Material">> >>
         /\ Cardinality({k \in DOMAIN merged : IsBlank(merged[k])}) = 2

\* Whether the annotations of a document tile its token boundaries: each is
\* aligned, and no two of one entity type share a character.
Tiles(document) ==
  \A n \in DOMAIN entity_types :
    LET sel == LinesOfEntity(document.ann, entity_types[n])
        annotations == [k \in DOMAIN sel |-> AnnotationOfLine(sel[k])]
    IN  \A k \in DOMAIN annotations :
          Aligned(document.doc, annotations[k]) /\ Disjoint(annotations, k)

\* The spans (start, end) of the annotations of an entity type in the lines
\* of an annotation file.
SpansOf(ann, entity) ==
  LET sel == LinesOfEntity(ann, entity)
  IN  {<<AnnotationOfLine(sel[k]).start, AnnotationOfLine(sel[k]).end>> : k \in DOMAIN sel}

\* C9: for a document whose annotations tile its token boundaries,
\* write_ann_file_from_conll_file on the merged CoNLL output and the text of
\* the document returns and writes the original spans of every entity type.
C9_RoundTrip ==
  (call.op = "write_ann_file_from_conll_file" /\ Tiles(CalledDocument))
    => /\ result.status = "returned"
       /\ \A n \in DOMAIN entity_types :
            SpansOf(ReadLines(files["ann"]), entity_types[n])
              = SpansOf(CalledDocument.ann, entity_types[n])

(***************************************************************************)
(* The stratified split: C10                                               *)
(***************************************************************************)
\* Whether no position occurs twice in a list of lines.
NoRepeat(lines) == \A j, k \in DOMAIN lines : lines[j] = lines[k] => j = k

\* C10: the train, validation and test sets a split returns hold no input
\* position twice, within a set or across two sets; when train_size and
\* test_size add up to 1, every input position is in one of them.
C10_SplitsAreDisjoint ==
  split.status = "returned"
    => /\ NoRepeat(split.train.lines \o split.validation.lines \o split.test.lines)
       /\ dataset.sizes.train_size + dataset.sizes.test_size = 10
            => Range(split.train.lines \o split.validation.lines \o split.test.lines)
                 = DOMAIN dataset.lines

\* C10 witness: a returned split of a dataset of two classes whose sizes add
\* up to 1, each of the three sets holding both classes.
C10_Witness ==
  /\ split.status = "returned"
  /\ dataset.sizes.train_size + dataset.sizes.test_size = 10
  /\ \A part \in {split.train, split.validation, split.test} :
        Range(part.labels) = DOMAIN classname2idx

\* A returned split whose sizes leave input positions out of every set.
SomePositionsLeftOut ==
  /\ split.status = "returned"
  /\ Range(split.train.lines \o split.validation.lines \o split.test.lines)
       # DOMAIN dataset.lines

(***************************************************************************)
(* The stratified split: C11                                               *)
(***************************************************************************)
\* count(c, labels)
CountOf(c, labels) == Cardinality({k \in DOMAIN labels : labels[k] = c})

\* Whether, for every class c, the proportion of c in part differs from its
\* proportion in whole by less than 1 / len(part), which is to say that the
\* count of c in part is less than one example away from its exact share:
\* |count(c, part) / len(part) - count(c, whole) / len(whole)| < 1 / len(part),
\* multiplied by len(part) * len(whole).
Stratified(part, whole) ==
  \A c \in DOMAIN classname2idx :
    LET d == CountOf(c, part) * Len(whole) - CountOf(c, whole) * Len(part)
    IN  -Len(whole) < d /\ d < Len(whole)

\* C11: in a returned split the proportion of every class in train is within
\* 1 / len(train) of its proportion in the input; test and validation are
\* within 1 / len(test) and 1 / len(validation) of the proportions in the
\* held-out part they are split from; and validation holds the
\* validation_size fraction of the held-out part, rounded up.
C11_SplitsAreStratified ==
  split.status = "returned"
    => LET test_valid == split.test.labels \o split.validation.labels
       IN  /\ Stratified(split.train.labels, dataset.labels)
           /\ Stratified(split.test.labels, test_valid)
           /\ Stratified(split.validation.labels, test_valid)
           /\ Len(split.validation.labels)
                = (dataset.sizes.validation_size * Len(test_valid) + 9) \div 10

\* C11 witness: a returned split of seven examples, three of one class and
\* four of the other, in which no set can hold the exact share of a class.
C11_Witness ==
  /\ split.status = "returned"
  /\ Len(dataset.labels) = 7
  /\ CountOf("neg", dataset.labels) = 3
  /\ CountOf("neg", split.train.labels) = 1 /\ Len(split.train.labels) = 2
  /\ CountOf("neg", split.test.labels) = 1 /\ Len(split.test.labels) = 2
  /\ CountOf("neg", split.validation.labels) = 1 /\ Len(split.validation.labels) = 3

(***************************************************************************)
(* The stratified split: C12                                               *)
(***************************************************************************)
\* Whether the message of the error names a class (the numbers of sklearn's
\* messages are counts of members, places and classes).
NamesClass(message, c) == c \in Range(message)

\* The classes of the input with fewer than 2 examples.
TooFewInInput == {c \in Range(dataset.labels) : CountOf(c, dataset.labels) < 2}

\* C12: a split of an input in which a class has too few examples raises an
\* error that names such a class, and no returned split has a class of the
\* input missing from train, from test or from validation.
C12_TooFewExamplesIsAnError ==
  (split.status # "none" /\ Len(dataset.lines) = Len(dataset.labels))
    => /\ TooFewInInput # {}
            => /\ split.status = "raised"
               /\ \E c \in TooFewInInput : NamesClass(split.message, c)
       /\ split.status = "returned"
            => \A c \in Range(dataset.labels) :
                 \A part \in {split.train, split.validation, split.test} :
                   c \in Range(part.labels)

(***************************************************************************)
(* The stratified split: C21                                               *)
(***************************************************************************)
\* Whether the lists of a returned set are as long as each other and the
\* label at every place is the input label of the line at that place (a line
\* is its position in the input).
Paired(part) ==
  /\ Len(part.lines) = Len(part.labels)
  /\ \A k \in DOMAIN part.lines :
       /\ part.lines[k] \in DOMAIN dataset.labels
       /\ part.labels[k] = dataset.labels[part.lines[k]]

\* C21: in every set of a returned split the lines and the labels have the
\* same length and the i-th label is the input label of the i-th line; a call
\* whose lines and labels differ in length raises AssertionError and gives
\* back no set.
C21_LinesAndLabelsStayPaired ==
  split.status # "none"
    => /\ split.status = "returned"
            => /\ Paired(split.train)
               /\ Paired(split.validation)
               /\ Paired(split.test)
       /\ Len(dataset.lines) # Len(dataset.labels)
            => split = [NoSplit EXCEPT !.status = "raised", !.err = "AssertionError"]

\* C21 witness: a returned split of an input whose labels are not all the
\* same and not grouped by class, each set holding both classes.
C21_Witness ==
  /\ split.status = "returned"
  /\ dataset.labels = <<"pos", "neg", "pos", "neg", "pos", "neg">>
  /\ \A part \in {split.train, split.validation, split.test} :
        Range(part.labels) = DOMAIN classname2idx

\* C21 witness of the assertion: a call with one line more than labels has
\* raised AssertionError.
C21_WitnessAssertion ==
  /\ split.status = "raised" /\ split.err = "AssertionError"
  /\ Len(dataset.lines) = Len(dataset.labels) + 1
  /\ Len(dataset.labels) >= 4

(***************************************************************************)
(* The suffix of the tags: C22                                             *)
(***************************************************************************)
\* The suffix of a tag X-E: what follows the prefix and the dash.
TagSuffix(tag) == SubSeq(tag, 3, Len(tag))

\* Whether a tag has the form X-E with X one of B, I, L, U, O.
HasBilouForm(tag) ==
  Len(tag) > 2 /\ tag[1] \in {"B", "I", "L", "U", "O"} /\ tag[2] = "-"

\* C22: every tag a BILOU conversion emits has the form X-E with X one of
\* B, I, L, U, O and E the requested entity type, whatever the letter case in
\* which the annotation file spells the tag.
C22_TagsCarryTheRequestedType ==
  (IsConversionCall /\ result.status = "returned")
    => \A k \in DOMAIN EmittedLines :
         LET tag == EmittedTag(EmittedLines[k])
         IN  HasBilouForm(tag) /\ TagSuffix(tag) = call.entity

\* What the code keeps instead: the suffix of an O tag is the requested
\* entity type, and the suffix of any other tag is the tag of an annotation
\* line of that type as the file spells it.
TagsCarryTheSpellingOfTheFile ==
  (IsConversionCall /\ result.status = "returned")
    => \A k \in DOMAIN EmittedLines :
         LET tag == EmittedTag(EmittedLines[k])
         IN  /\ HasBilouForm(tag)
             /\ tag[1] = "O" => TagSuffix(tag) = call.entity
             /\ tag[1] # "O"
                  => \E j \in DOMAIN CalledAnnotations :
                       TagSuffix(tag) = CalledAnnotations[j].tag

\* A conversion for Task returned a tag U-TASK next to a tag O-Task.
SuffixesDiffer ==
  /\ IsConversionCall /\ result.status = "returned"
  /\ call.entity = <<"Task">>
  /\ \E j, k \in DOMAIN EmittedLines :
       /\ EmittedTag(EmittedLines[j]) = <<"U", "-", "TASK">>
       /\ EmittedTag(EmittedLines[k]) = <<"O", "-", "Task">>

(***************************************************************************)
(* The annotation file written back: C23                                   *)
(***************************************************************************)
IsWriteAnnCall == call.op = "write_ann_file_from_conll_file"

IsReadBackCall == call.op = "_get_annotations_for_entity of ann_filepath"

\* The number of spans in the tag column of an entity type of the CoNLL file:
\* the rows whose tag of that column is a U or an L tag (n is 1 for the last
\* column, 3 for the first tag column).
SpansInColumn(n) ==
  LET rows == ReadLines(files["merged"])
  IN  Cardinality({k \in DOMAIN rows :
         LET f == SplitWs(rows[k]) IN f[Len(f) + 1 - n][1] \in {"U", "L"}})

\* The entity type of the k-th written line: Task for the spans of the first
\* tag column, then Process, then Material.
TypeOfLine(k) ==
  IF k <= SpansInColumn(3) THEN <<"Task">>
  ELSE IF k <= SpansInColumn(3) + SpansInColumn(2) THEN <<"Process">>
  ELSE <<"Material">>

\* The number of spans of an entity type in the CoNLL file.
SpansOfType(entity) ==
  IF entity = <<"Task">> THEN SpansInColumn(3)
  ELSE IF entity = <<"Process">> THEN SpansInColumn(2)
  ELSE SpansInColumn(1)

\* The lines of the written file, as the loader reads them.
WrittenLines == ReadLines(files["ann"])

\* One line per span, numbered T0, T1, ... in the order Task, Process,
\* Material.
OneLinePerSpan ==
  /\ Len(WrittenLines) = SpansInColumn(3) + SpansInColumn(2) + SpansInColumn(1)
  /\ \A k \in DOMAIN WrittenLines :
       /\ Split(WrittenLines[k], TAB)[1] = <<"T">> \o StrOf(k - 1)
       /\ SplitWs(Split(WrittenLines[k], TAB)[2])[1] = TypeOfLine(k)

\* Every written line has the format "<id>\t<tag> <start> <end>\t<surface>".
EveryLineWellFormed == \A k \in DOMAIN WrittenLines : WellFormedLine(WrittenLines[k])

\* The loader read back, without a skipped line, as many annotations of the
\* requested type as the CoNLL file has spans of it.
ReadBackEverySpan ==
  /\ result.status = "returned"
  /\ Len(result.value) = SpansOfType(call.entity)
  /\ \A k \in DOMAIN result.warnings : result.warnings[k].kind # "skipping"

\* C23: write_ann_file_from_conll_file writes one line per recovered span,
\* with the ids T0, T1, ... consecutive over the Task, then the Process, then
\* the Material spans, every line in the format of the annotation file, and
\* _get_annotations_for_entity accepts every written line.
C23_WrittenLinesAreAccepted ==
  /\ (IsWriteAnnCall /\ result.status = "returned")
       => (OneLinePerSpan /\ EveryLineWellFormed)
  /\ IsReadBackCall => ReadBackEverySpan

\* Whether the surface text of a written line holds a tab.
TabInSurface(line) ==
  Len(Split(line, TAB)) > 3

\* What the code keeps: one numbered line per span, and every line whose
\* surface text holds no tab is in the format of the annotation file and
\* read back.
LinesWithoutTabAreAccepted ==
  /\ (IsWriteAnnCall /\ result.status = "returned")
       => /\ OneLinePerSpan
          /\ \A k \in DOMAIN WrittenLines :
               TabInSurface(WrittenLines[k]) \/ WellFormedLine(WrittenLines[k])
  /\ (IsReadBackCall /\ \A k \in DOMAIN WrittenLines : ~TabInSurface(WrittenLines[k]))
       => ReadBackEverySpan

\* The text "a<tab>b" and the CoNLL file of its two words with a Task span
\* over both: the line written for the span is not read back.
SpanOverTabIsLost ==
  /\ IsReadBackCall /\ call.entity = <<"Task">>
  /\ [i \in DOMAIN CalledDocument.doc |-> CalledDocument.doc[i].text]
       = << <<"a">>, <<TAB>>, <<"c">> >>
  /\ Len(ReadLines(files["merged"])) = 2
  /\ SpansInColumn(3) = 1 /\ SpansInColumn(2) = 0 /\ SpansInColumn(1) = 0
  /\ Len(WrittenLines) = 1
  /\ result.status = "returned" /\ result.value = <<>>

(***************************************************************************)
(* The vocabulary of an experiment: C13                                    *)
(***************************************************************************)
\* The datasets of the run that built a vocabulary.
Builders == {i \in DOMAIN experiment.datasets : experiment.datasets[i].built}

\* Every dataset of the run maps every token to the same id.
SameIds ==
  \A i, j \in DOMAIN experiment.datasets :
    \A token \in {"a", "b", "c"} \cup Range(reserved_tokens) :
      Lookup(experiment.datasets[i].vocab, token)
        = Lookup(experiment.datasets[j].vocab, token)

\* The vocabulary of the training data of the run.
TrainVocab == BuildVocab(experiment.train_tokens, experiment.max_num_words)

\* C13 as stated: a finished run has built the vocabulary exactly once, in its
\* train dataset and from its training data, the store holds that vocabulary,
\* the datasets over validation and test data loaded it, and every dataset
\* maps a token to the same id.
C13_VocabularyBuiltExactlyOnce ==
  experiment.pc = "done"
    => /\ Builders = {1}
       /\ vocab_store = TrainVocab
       /\ \A i \in DOMAIN experiment.datasets : experiment.datasets[i].vocab = vocab_store
       /\ SameIds

\* C13, amended: a run builds the vocabulary at most once, and only in its
\* first dataset, the train dataset, when no vocabulary is stored at the start
\* of the run: then it is built from the training data of the run and stored.
\* A run that finds a stored vocabulary builds none.  In both cases every
\* dataset of the run holds the stored vocabulary, the datasets over validation
\* and test data never build or overwrite it, and every dataset maps a token
\* to the same id.
C13_VocabularyBuiltAtMostOnce ==
  experiment.datasets # <<>>
    => /\ Builders = IF experiment.store_at_start = NoVocab THEN {1} ELSE {}
       /\ vocab_store = IF experiment.store_at_start = NoVocab
                        THEN TrainVocab
                        ELSE experiment.store_at_start
       /\ \A i \in DOMAIN experiment.datasets : experiment.datasets[i].vocab = vocab_store
       /\ SameIds

\* A first run with its three datasets and the dataset of the inference test,
\* whose test data alone would give another vocabulary.
C13_Witness ==
  /\ experiment.pc = "done"
  /\ experiment.runs = 1
  /\ Len(experiment.datasets) = 4
  /\ Builders = {1}
  /\ BuildVocab(experiment.test_tokens, experiment.max_num_words) # vocab_store
  /\ BuildVocab(experiment.datasets[4].tokens, experiment.max_num_words) # vocab_store

(***************************************************************************)
(* Packing to a length: C14, C15                                           *)
(***************************************************************************)
IsPackCall == packing.op \in {"pack_to_length", "pack_to_length again"}

ForwardReturned == packing.op = "forward" /\ packing.status = "returned"

\* C14: pack_to_length gives a list of exactly max_length elements, the
\* markers, when asked for, inside that length; and every instance of a batch
\* of BertEmbedder.forward is packed to max_len, the longest tokenized length
\* of the batch, with [CLS] and [SEP] inside that length.
C14_PackedLengthIsMaxLength ==
  /\ IsPackCall
       => /\ Len(packing.packed) = packing.max_length
          /\ (packing.add_start_end_token /\ packing.max_length >= 2)
               => /\ packing.packed[1] = "[CLS]"
                  /\ "[SEP]" \in Range(packing.packed)
  /\ ForwardReturned
       => /\ \A k \in DOMAIN packing.x : Len(packing.x[k]) <= packing.max_len
          /\ \E k \in DOMAIN packing.x : Len(packing.x[k]) = packing.max_len
          /\ DOMAIN packing.padded_tokenized_text = DOMAIN packing.x
          /\ \A k \in DOMAIN packing.padded_tokenized_text :
               LET padded_tokens == packing.padded_tokenized_text[k]
               IN  /\ Len(padded_tokens) = packing.max_len
                   /\ packing.max_len >= 2
                        => /\ padded_tokens[1] = "[CLS]"
                           /\ "[SEP]" \in Range(padded_tokens)

\* A batch of a short and a long text packed by forward: the long one is
\* truncated, the short one padded.
C14_Witness ==
  /\ ForwardReturned
  /\ packing.x = <<<<"a">>, <<"a", "b", "a">>>>
  /\ packing.padded_tokenized_text
       = <<<<"[CLS]", "a", "[SEP]">>, <<"[CLS]", "a", "[SEP]">>>>

\* C15 as stated: packing what pack_to_length gave, with the same
\* arguments, gives it back, with add_start_end_token or without.
C15_PackIsIdempotent ==
  packing.op = "pack_to_length again" => packing.repacked = packing.packed

\* C15, amended: without add_start_end_token, packing what pack_to_length
\* gave gives it back; with add_start_end_token the second pack inserts the
\* markers again and keeps the length only.
C15_PackIsIdempotentWithoutMarkers ==
  packing.op = "pack_to_length again"
    => IF packing.add_start_end_token
       THEN Len(packing.repacked) = Len(packing.packed)
       ELSE packing.repacked = packing.packed

\* A text truncated by a pack without markers, and packed again.
C15_Witness ==
  /\ packing.op = "pack_to_length again"
  /\ ~packing.add_start_end_token
  /\ packing.max_length = 2
  /\ packing.packed = <<"a", "b">>
  /\ packing.repacked = <<"a", "b">>
  /\ \E i \in DOMAIN packing.x : Len(packing.x[i]) = 3

(***************************************************************************)
(* The files an operation opens: C16                                       *)
(***************************************************************************)
\* C16: after any operation has returned or raised, no file it opened is
\* open.
C16_NoFileStaysOpen == call.op # "none" => open_files = {}

\* write_bilou_lines left by the ValueError of a line of the annotation file
\* whose start is no number, raised while the annotation file is read and the
\* file of the entity type is open for writing.
C16_Witness ==
  /\ call.op = "write_bilou_lines"
  /\ result.status = "raised"
  /\ result.err = "ValueError"
  /\ GetAnnotationsForEntity(folder[1].ann, entity_types[1]).status = "raised"
  /\ open_files = {}

(***************************************************************************)
(* The sentences of a document: C17                                        *)
(***************************************************************************)
\* The tokens that start a sentence: the first token and every later token
\* the parser marked.
SentenceStarts(doc) == {i \in DOMAIN doc : i = 1 \/ doc[i].is_sent_start}

\* C17: get_sentence_wise_bilou_lines on a document that is not empty never
\* fails the assertion of line 204, and what it returns has one sequence for
\* every sentence-start token of the document, white space or not.
C17_OneSequencePerSentence ==
  (IsSentenceCall /\ CalledDocument.doc # <<>>)
    => /\ result.err # "AssertionError"
       /\ result.status = "returned"
            => Len(result.value) = Cardinality(SentenceStarts(CalledDocument.doc))

\* A document whose second sentence starts with a white-space token, split
\* into its two sentences.
C17_Witness ==
  /\ IsSentenceCall
  /\ result.status = "returned"
  /\ Len(result.value) = 2
  /\ \E i \in DOMAIN CalledDocument.doc :
       /\ i > 1
       /\ CalledDocument.doc[i].is_sent_start
       /\ IsSpaceToken(CalledDocument.doc[i])

(***************************************************************************)
(* The construction of a dataset: C18                                      *)
(***************************************************************************)
\* C18: the construction of a dataset whose dataset_type is none of train,
\* valid and test fails the assertion of __init__, and the caller gets no
\* object.
C18_OtherDatasetTypeIsFatal ==
  (constructed.status # "none"
     /\ constructed.args.dataset_type \notin {"train", "valid", "test"})
    => /\ constructed.status = "raised"
       /\ constructed.err = "AssertionError"
       /\ constructed.object = NoObject

\* The construction of a dataset of type "validation".
C18_Witness ==
  /\ constructed.args.dataset_type = "validation"
  /\ constructed.status = "raised"
  /\ constructed.err = "AssertionError"

(***************************************************************************)
(* Sentences and the whole document: C19                                   *)
(***************************************************************************)
\* C19: the sequences get_sentence_wise_bilou_lines returns, one after the
\* other, are the lines get_bilou_lines_for_entity returns for the same
\* document and entity type.
C19_SentencesPartitionTheDocument ==
  (IsSentenceCall /\ result.status = "returned")
    => Flatten(result.value)
         = GetBilouLinesForEntity(CalledDocument, call.entity).value

(***************************************************************************)
(* The three files of write_bilou_lines: C20                               *)
(***************************************************************************)
\* The words of the documents of the folder, in the order of self.file_ids.
RECURSIVE FolderWords(_)
FolderWords(documents) ==
  IF documents = <<>> THEN <<>>
  ELSE WordTexts(Head(documents).doc) \o FolderWords(Tail(documents))

\* The first column of the lines of a file that are not blank.
FirstColumn(lines) ==
  LET words == SelectSeq(lines, LAMBDA line : ~IsBlank(line))
  IN  [k \in DOMAIN words |-> SplitWs(words[k])[1]]

\* C20: the three files one call of write_bilou_lines wrote have the same
\* number of lines, their blank lines at the same places and the same token
\* in the first column of every other line; written document by document
\* (not sentence-wise), every file holds the words of the documents of the
\* folder once, in the order of the folder.
C20_FilesAreLineAligned ==
  (call.op = "write_bilou_lines" /\ result.status = "returned")
    => LET task     == ReadLines(files["task"])
           process  == ReadLines(files["process"])
           material == ReadLines(files["material"])
       IN  /\ Len(task) = Len(process)
           /\ Len(task) = Len(material)
           /\ \A k \in DOMAIN task :
                IF IsBlank(task[k]) THEN IsBlank(process[k]) /\ IsBlank(material[k])
                ELSE /\ ~IsBlank(process[k])
                     /\ ~IsBlank(material[k])
                     /\ SplitWs(task[k])[1] = SplitWs(process[k])[1]
                     /\ SplitWs(task[k])[1] = SplitWs(material[k])[1]
           /\ ~call.is_sentence_wise
                => \A name \in {"task", "process", "material"} :
                     FirstColumn(ReadLines(files[name])) = FolderWords(folder)

\* Two documents of one and of two words written to the three files, the
\* first word an entity in the Task file only.
C20_Witness ==
  /\ call.op = "write_bilou_lines"
  /\ result.status = "returned"
  /\ Len(folder) = 2
  /\ Len(WordTexts(folder[1].doc)) = 1
  /\ Len(WordTexts(folder[2].doc)) = 2
  /\ LET task    == ReadLines(files["task"])
         process == ReadLines(files["process"])
     IN  /\ Len(task) = 5
         /\ SplitWs(task[1])[2] = <<"U", "-", "Task">>
         /\ SplitWs(process[1])[2] = <<"O", "-", "Process">>

====
